---- MODULE Spec2Model ----
(***************************************************************************)
(* Model of prompt-lab: the prompt pipeline of services/claude_client.py   *)
(* (tool rendering, prompt composition, the model call, response parsing,  *)
(* cost), the session accumulator of services/cost_tracker.py, the loads   *)
(* and saves of services/file_manager.py and the session of app.py.        *)
(*                                                                         *)
(* Text is modelled as a sequence of tokens (TLA+ strings); concatenation  *)
(* of Python strings is \o.  The brace characters are tokens of their own, *)
(* so that str.format's parsing is modelled on the text itself.            *)
(***************************************************************************)
EXTENDS Integers, Sequences, FiniteSets, TLC

\* ------------------------------------------------------------------------
\* Bounds
\* ------------------------------------------------------------------------
MaxTplLen == 3        \* longest enumerated user template, in tokens
MaxSolutions == 2     \* longest enumerated `solutions` list
MaxTools == 2         \* longest enumerated tool list
MaxOps == 3           \* longest enumerated sequence of tracker calls
MaxInputs == 2        \* most inputs of an enumerated sub-system
MaxFiles == 3         \* most files of an enumerated directory
MaxTemplates == 2     \* most records of an enumerated template store
MaxGenerations == 2   \* most clicks on Generate in a session
MaxSaves == 2          \* saves of a template in one run

\* ------------------------------------------------------------------------
\* Generic helpers
\* ------------------------------------------------------------------------
SeqsUpTo(S, n) == UNION {[1..k -> S] : k \in 0..n}

\* sep.join(parts) for a list of strings
RECURSIVE Join(_, _)
Join(parts, sep) ==
    IF parts = <<>> THEN <<>>
    ELSE IF Len(parts) = 1 THEN parts[1]
    ELSE parts[1] \o <<sep>> \o Join(Tail(parts), sep)

\* Python's None and a present value, kept apart from the value itself
None == [none |-> TRUE]
Some(v) == [val |-> v]
IsNone(x) == "none" \in DOMAIN x

\* outcome of a call: a returned value or a raised exception
Ok(v) == [ok |-> TRUE, out |-> v]
Raise(e) == [ok |-> FALSE, exc |-> e]

\* ------------------------------------------------------------------------
\* str.format(problem=..., tools=...)   (claude_client.py:129-132)
\* ------------------------------------------------------------------------
\* position of the first brace token in s, 0 when there is none
FirstBrace(s) ==
    IF \E j \in 1..Len(s) : s[j] \in {"{", "}"}
    THEN CHOOSE j \in 1..Len(s) :
            /\ s[j] \in {"{", "}"}
            /\ \A k \in 1..(j - 1) : s[k] \notin {"{", "}"}
    ELSE 0

\* the keyword arguments of the format call
FieldValueLenient(name, problem, tool_text) ==
    IF name = <<"problem">> THEN Ok(problem)
    ELSE IF name = <<"tools">> THEN Ok(tool_text)
    ELSE Ok(<<>>)

FieldValue(name, problem, tool_text) ==
    IF name = <<"problem">> THEN Ok(problem)
    ELSE IF name = <<"tools">> THEN Ok(tool_text)
    ELSE IF name = <<>> THEN Raise("IndexError")
    ELSE Raise("KeyError")

Prepend(s, r) == IF r.ok THEN Ok(s \o r.out) ELSE r

RECURSIVE StrFormatWrong(_, _, _)
StrFormatWrong(tpl, problem, tool_text) ==
    IF tpl = <<>> THEN Ok(<<>>)
    ELSE IF Len(tpl) >= 3 /\ tpl[1] = "{" /\ tpl[2] = "problem" /\ tpl[3] = "}"
    THEN Prepend(tool_text, StrFormatWrong(SubSeq(tpl, 4, Len(tpl)), problem, tool_text))
    ELSE IF Len(tpl) >= 3 /\ tpl[1] = "{" /\ tpl[2] = "tools" /\ tpl[3] = "}"
    THEN Prepend(problem, StrFormatWrong(SubSeq(tpl, 4, Len(tpl)), problem, tool_text))
    ELSE Prepend(<<Head(tpl)>>, StrFormatWrong(Tail(tpl), problem, tool_text))

RECURSIVE StrFormat(_, _, _)
StrFormat(tpl, problem, tool_text) ==
    IF tpl = <<>> THEN Ok(<<>>)
    ELSE LET c == Head(tpl)
             rest == Tail(tpl)
         IN  IF c = "}" THEN
                 IF rest # <<>> /\ Head(rest) = "}"
                 THEN Prepend(<<"}">>, StrFormat(Tail(rest), problem, tool_text))
                 ELSE Raise("ValueError")
             ELSE IF c = "{" THEN
                 IF rest = <<>> THEN Raise("ValueError")
                 ELSE IF Head(rest) = "{"
                 THEN Prepend(<<"{">>, StrFormat(Tail(rest), problem, tool_text))
                 ELSE LET j == FirstBrace(rest) IN
                      IF j = 0 \/ rest[j] = "{" THEN Raise("ValueError")
                      ELSE LET fv == FieldValue(SubSeq(rest, 1, j - 1), problem, tool_text)
                           IN  IF fv.ok
                               THEN Prepend(fv.out,
                                      StrFormat(SubSeq(rest, j + 1, Len(rest)), problem, tool_text))
                               ELSE fv
             ELSE Prepend(<<c>>, StrFormat(rest, problem, tool_text))

\* ------------------------------------------------------------------------
\* Tool descriptors.  A descriptor is a Python dict: a function from the keys
\* it has to their values.  Ordered sub-mappings (sub_systems, inputs,
\* attributes) are sequences of [k, v] entries in insertion order.  Attribute
\* keys are token sequences so that the test for '_' reads the key; attribute
\* values are JSON values: tagged with their type, strings as token sequences.
\* ------------------------------------------------------------------------
JStr(s) == [t |-> "str", s |-> s]
JNum(n) == [t |-> "num", n |-> n]
JNull == [t |-> "null"]
JArr(a) == [t |-> "arr", a |-> a]
JObj(o) == [t |-> "obj", o |-> o]

Has(d, k) == k \in DOMAIN d
\* dict.get that ignores the default given
GetNoDefault(d, k, dflt) == IF k \in DOMAIN d THEN d[k] ELSE "None"
Get(d, k, dflt) == IF k \in DOMAIN d THEN d[k] ELSE dflt

\* str() of the integers a descriptor's integration_score takes
NumStr(n) == <<"0", "1", "2", "3", "4", "5", "6", "7", "8", "9", "10">>[n + 1]

ToolSpotify ==
    [tool_id |-> "spotify", display_name |-> "Spotify", category |-> "Music",
     integration_status |-> "Manual export",
     inputs |-> << [k |-> "playlists",
                    v |-> [use_cases |-> << <<"mood playlists">>, <<"discover music">> >>]],
                   [k |-> "history", v |-> [use_cases |-> <<>>]],
                   [k |-> "raw", v |-> [format |-> "csv"]] >>]

ToolMaps == [tool_id |-> "google_maps", category |-> "Navigation"]

WatchAttributes ==
    JObj(<< [k |-> <<"sensor">>, v |-> JStr(<<"heart rate">>)],
            [k |-> <<"data", "_", "type">>, v |-> JStr(<<"timeseries">>)],
            [k |-> <<"rate">>, v |-> JNum(5)],
            [k |-> <<"unit">>, v |-> JStr(<<"bpm">>)],
            [k |-> <<"nested">>, v |-> JObj(<< [k |-> <<"deep">>, v |-> JStr(<<"x">>)] >>)],
            [k |-> <<"export">>, v |-> JStr(<<"csv">>)] >>)

SleepAttributes ==
    JObj(<< [k |-> <<"stages">>, v |-> JStr(<<"sleep stages">>)],
            [k |-> <<"score">>, v |-> JStr(<<"sleep score">>)],
            [k |-> <<"trend">>, v |-> JStr(<<"weekly trend">>)],
            [k |-> <<"_", "id">>, v |-> JStr(<<"hidden">>)] >>)

ToolWatch ==
    [main_system |-> "Apple Watch", integration_score |-> 8,
     sub_systems |->
        << [k |-> "health",
            v |-> [system_name |-> "Health", description |-> "Health metrics",
                   inputs |-> << [k |-> "heart", v |-> [attributes |-> WatchAttributes]],
                                 [k |-> "sleep", v |-> [attributes |-> SleepAttributes]],
                                 [k |-> "notes", v |-> [attributes |-> JStr(<<"free text">>)]],
                                 [k |-> "misc", v |-> [label |-> "none"]] >>]],
           [k |-> "fitness", v |-> [description |-> "Workouts"]],
           [k |-> "pay", v |-> [system_name |-> "Pay",
                                inputs |-> << [k |-> "card",
                                               v |-> [attributes |-> JObj(<< [k |-> <<"card", "_", "no">>,
                                                                              v |-> JStr(<<"secret">>)] >>)]] >>]] >>]

\* the Complex descriptor after app.py:239-241 has given it a tool_id
ToolWatchId == [k \in DOMAIN ToolWatch \cup {"tool_id"} |->
                  IF k = "tool_id" THEN "apple_watch" ELSE ToolWatch[k]]

ToolBare == [sub_systems |-> <<>>]

Tools == {ToolSpotify, ToolMaps, ToolWatch, ToolWatchId, ToolBare}

\* ------------------------------------------------------------------------
\* Tool-text rendering   (claude_client.py:83-124)
\* ------------------------------------------------------------------------
HasUnderscore(key) == \E i \in 1..Len(key) : key[i] = "_"

\* the key is not looked at
RECURSIVE AttrCapabilitiesAnyKey(_)
AttrCapabilitiesAnyKey(entries) ==
    IF entries = <<>> THEN <<>>
    ELSE LET e == Head(entries)
         IN  (IF e.v.t = "str" THEN <<e.v.s>> ELSE <<>>)
             \o AttrCapabilitiesAnyKey(Tail(entries))

\* claude_client.py:105-107
RECURSIVE AttrCapabilities(_)
AttrCapabilities(entries) ==
    IF entries = <<>> THEN <<>>
    ELSE LET e == Head(entries)
         IN  (IF e.v.t = "str" /\ ~HasUnderscore(e.k) THEN <<e.v.s>> ELSE <<>>)
             \o AttrCapabilities(Tail(entries))

\* claude_client.py:101-107
RECURSIVE Capabilities(_)
Capabilities(inputs) ==
    IF inputs = <<>> THEN <<>>
    ELSE LET input_data == Head(inputs).v
         IN  (IF Has(input_data, "attributes") /\ input_data.attributes.t = "obj"
              THEN AttrCapabilities(input_data.attributes.o)
              ELSE <<>>)
             \o Capabilities(Tail(inputs))

Take(s, n) == SubSeq(s, 1, IF Len(s) < n THEN Len(s) ELSE n)

\* claude_client.py:94-109
RECURSIVE RenderSubSystems(_)
RenderSubSystems(subs) ==
    IF subs = <<>> THEN <<>>
    ELSE LET sub_id == Head(subs).k
             sub_system == Head(subs).v
             capabilities == IF Has(sub_system, "inputs")
                             THEN Capabilities(sub_system.inputs) ELSE <<>>
         IN  <<"\n#### ", Get(sub_system, "system_name", sub_id), "\n",
               "- **Description**: ", Get(sub_system, "description", "No description"), "\n">>
             \o (IF capabilities # <<>>
                 THEN <<"- **Capabilities**: ">> \o Join(Take(capabilities, 5), ", ") \o <<"\n">>
                 ELSE <<>>)
             \o RenderSubSystems(Tail(subs))

\* claude_client.py:119-122
RECURSIVE RenderUseCases(_)
RenderUseCases(inputs) ==
    IF inputs = <<>> THEN <<>>
    ELSE LET use_cases == Get(Head(inputs).v, "use_cases", <<>>)
         IN  (IF use_cases # <<>>
              THEN <<"  - ">> \o Join(use_cases, ", ") \o <<"\n">>
              ELSE <<>>)
             \o RenderUseCases(Tail(inputs))

\* claude_client.py:87-124, one iteration of the loop (the backquotes around
\* the id are written ' here)
RenderTool(tool) ==
    (IF Has(tool, "sub_systems")
     THEN <<"\n### ", Get(tool, "main_system", "Unknown Tool"), "\n",
            "- **Integration Score**: ",
            (IF Has(tool, "integration_score") THEN NumStr(tool.integration_score) ELSE "N/A"),
            "/10\n">>
          \o RenderSubSystems(tool.sub_systems)
     ELSE <<"\n### ", Get(tool, "display_name", Get(tool, "tool_id", "None")), "\n",
            "- **ID**: '", Get(tool, "tool_id", "None"), "'\n",
            "- **Category**: ", Get(tool, "category", "Unknown"), "\n",
            "- **Integration**: ", Get(tool, "integration_status", "Unknown"), "\n">>
          \o (IF Has(tool, "inputs")
              THEN <<"- **What you can get from it**:\n">> \o RenderUseCases(tool.inputs)
              ELSE <<>>))
    \o <<"\n">>

\* the descriptors rendered last first
RECURSIVE RenderToolsReversed(_)
RenderToolsReversed(tools) ==
    IF tools = <<>> THEN <<>>
    ELSE RenderToolsReversed(Tail(tools)) \o RenderTool(Head(tools))

\* claude_client.py:84-124
RECURSIVE RenderTools(_)
RenderTools(tools) ==
    IF tools = <<>> THEN <<>>
    ELSE RenderTool(Head(tools)) \o RenderTools(Tail(tools))

\* ------------------------------------------------------------------------
\* What the rendering loop raises.  A mapping inside a descriptor is a record;
\* an input whose data is not a mapping is a tagged JSON value.
\* ------------------------------------------------------------------------
IsMapping(x) == "t" \notin DOMAIN x

\* the first value that is not None, None when there is none
RECURSIVE FirstSome(_)
FirstSome(opts) ==
    IF opts = <<>> THEN None
    ELSE IF ~IsNone(Head(opts)) THEN Head(opts)
    ELSE FirstSome(Tail(opts))

\* claude_client.py:102-103: `'attributes' in input_data`, then
\* input_data['attributes'].  A number or None is not iterable; a string is
\* searched for the substring and cannot be indexed by a string.
AttributesError(input_data) ==
    IF IsMapping(input_data) THEN None
    ELSE IF input_data.t # "str" THEN Some("TypeError")
    ELSE IF \E i \in 1..Len(input_data.s) : input_data.s[i] = "attributes"
         THEN Some("TypeError")
         ELSE None

\* claude_client.py:87-122, one iteration of the loop: the inputs of each
\* sub-system are read for their attributes (99-107), the inputs of a Simple
\* descriptor with input_data.get('use_cases', []) (120)
ToolError(tool) ==
    LET SubSystemError(sub_system) ==
            IF Has(sub_system, "inputs")
            THEN FirstSome([i \in 1..Len(sub_system.inputs) |->
                               AttributesError(sub_system.inputs[i].v)])
            ELSE None
        UseCasesError(input_data) ==
            IF IsMapping(input_data) THEN None ELSE Some("AttributeError")
    IN  IF Has(tool, "sub_systems")
        THEN FirstSome([i \in 1..Len(tool.sub_systems) |->
                           SubSystemError(tool.sub_systems[i].v)])
        ELSE IF Has(tool, "inputs")
        THEN FirstSome([i \in 1..Len(tool.inputs) |-> UseCasesError(tool.inputs[i].v)])
        ELSE None

\* claude_client.py:84-124: the tool text, or the error the loop stops with
RenderOutcome(tools) ==
    LET err == FirstSome([i \in 1..Len(tools) |-> ToolError(tools[i])])
    IN  IF IsNone(err) THEN Ok(RenderTools(tools)) ELSE Raise(err.val)

\* ------------------------------------------------------------------------
\* Prompt composition   (claude_client.py:126-154, config.py:82-101)
\* ------------------------------------------------------------------------
DefaultHead == "\nProblem to Solve:\n"
DefaultMiddle == "\n\nAvailable Tools and Their Capabilities:\n"
DefaultTail == "\n\nYour Task:\nGenerate exactly 5 distinct solution approaches that address this problem.\nEach solution should be formatted as specified in your system instructions.\n\nRemember:\n- Be specific about HOW to use each tool (screenshots, exports, manual steps)\n- Don't assume integrations that don't exist\n- Make it feel like advice from a helpful friend\n- Each prompt should be immediately usable by copying to an LLM\n- Include tools when they genuinely enhance the solution\n- Some solutions may use 2-3 tools, others may use none\n- Pure AI solutions are perfectly acceptable when appropriate\n"

\* config.py:82-101
DEFAULT_USER_PROMPT ==
    <<DefaultHead, "{", "problem", "}", DefaultMiddle, "{", "tools", "}", DefaultTail>>

\* claude_client.py:135-154, the f-string of the else branch
InlineDefaultWrong(problem, tool_text) ==
    <<DefaultHead>> \o problem \o <<DefaultMiddle>> \o <<DefaultTail>>

InlineDefault(problem, tool_text) ==
    <<DefaultHead>> \o problem \o <<DefaultMiddle>> \o tool_text \o <<DefaultTail>>

\* Python truthiness of `user_prompt_template`: neither None nor ""
Truthy(user_prompt_template) ==
    ~IsNone(user_prompt_template) /\ user_prompt_template.val # <<>>

BuildUserPromptAlwaysDefault(problem, tools, user_prompt_template) ==
    Ok(InlineDefault(problem, RenderTools(tools)))

\* ClaudeClient._build_user_prompt
BuildUserPrompt(problem, tools, user_prompt_template) ==
    LET rendered == RenderOutcome(tools)
    IN  IF ~rendered.ok THEN rendered
        ELSE IF Truthy(user_prompt_template)
        THEN StrFormat(user_prompt_template.val, problem, rendered.out)
        ELSE Ok(InlineDefault(problem, rendered.out))

\* ------------------------------------------------------------------------
\* Response text and json.loads   (claude_client.py:160)
\* A response text is its characters (raw) together with what json.loads
\* makes of them: a decoded document, or None when decoding fails.
\* ------------------------------------------------------------------------
RECURSIVE Dumps(_), DumpsItems(_), DumpsEntries(_)
Dumps(v) ==
    CASE v.t = "null" -> <<"null">>
      [] v.t = "num" -> <<NumStr(v.n)>>
      [] v.t = "str" -> <<"\"">> \o v.s \o <<"\"">>
      [] v.t = "arr" -> <<"[">> \o DumpsItems(v.a) \o <<"]">>
      [] v.t = "obj" -> <<"{">> \o DumpsEntries(v.o) \o <<"}">>
DumpsItems(a) ==
    IF a = <<>> THEN <<>>
    ELSE Dumps(Head(a)) \o (IF Len(a) > 1 THEN <<",">> ELSE <<>>) \o DumpsItems(Tail(a))
DumpsEntries(o) ==
    IF o = <<>> THEN <<>>
    ELSE <<"\"">> \o Head(o).k \o <<"\"", ":">> \o Dumps(Head(o).v)
         \o (IF Len(o) > 1 THEN <<",">> ELSE <<>>) \o DumpsEntries(Tail(o))

MalformedText(raw) == [raw |-> raw, doc |-> None]
JsonText(v) == [raw |-> Dumps(v), doc |-> Some(v)]

\* json.loads: JSONDecodeError on text that is not JSON
JsonLoads(text) ==
    IF IsNone(text.doc) THEN Raise("JSONDecodeError") ELSE Ok(text.doc.val)

\* ------------------------------------------------------------------------
\* Python dict operations on a JSON object (entries in insertion order)
\* ------------------------------------------------------------------------
Keys(obj) == {obj.o[i].k : i \in 1..Len(obj.o)}
HasKey(obj, key) == key \in Keys(obj)
Lookup(obj, key) == obj.o[CHOOSE i \in 1..Len(obj.o) : obj.o[i].k = key].v
DictGet(obj, key, dflt) == IF HasKey(obj, key) THEN Lookup(obj, key) ELSE dflt
\* d[key] = value for a key the dict does not have yet
SetNew(obj, key, value) == JObj(Append(obj.o, [k |-> key, v |-> value]))

\* `key in s` for two strings: key occurs as a contiguous run of s
IsSubstring(key, s) ==
    \E i \in 0..(Len(s) - Len(key)) : SubSeq(s, i + 1, i + Len(key)) = key
\* `key in lst` for a list: some element equals the string
IsElement(key, lst) == \E i \in 1..Len(lst) : lst[i] = JStr(key)

K_title == <<"title">>
K_prompt == <<"prompt">>
K_tools_used == <<"tools", "_", "used">>
K_tags == <<"tags">>
SolutionKeys == {K_title, K_prompt, K_tools_used, K_tags}

\* claude_client.py:166,168,170,172
DefaultOf(key) ==
    CASE key = K_title -> JStr(<<"Untitled Solution">>)
      [] key = K_prompt -> JStr(<<"No prompt generated">>)
      [] key = K_tools_used -> JArr(<<>>)
      [] key = K_tags -> JArr(<<>>)

\* claude_client.py:165-172 on a dict
BackfillKey(solution, key) ==
    IF ~HasKey(solution, key) THEN SetNew(solution, key, DefaultOf(key)) ELSE solution

Backfill(solution) ==
    BackfillKey(BackfillKey(BackfillKey(BackfillKey(solution, K_title), K_prompt),
                            K_tools_used), K_tags)

\* claude_client.py:165-172 on one element of `solutions`, whatever its type:
\* `'title' not in solution` is a key test on a dict, a substring test on a
\* str, a membership test on a list and a TypeError on a number or None; the
\* assignment `solution['title'] = ...` is a TypeError on a str and on a list.
ValidateSolution(solution) ==
    CASE solution.t = "obj" -> Ok(Backfill(solution))
      [] solution.t = "str" ->
            IF \A key \in SolutionKeys : IsSubstring(key, solution.s)
            THEN Ok(solution) ELSE Raise("TypeError")
      [] solution.t = "arr" ->
            IF \A key \in SolutionKeys : IsElement(key, solution.a)
            THEN Ok(solution) ELSE Raise("TypeError")
      [] OTHER -> Raise("TypeError")

\* claude_client.py:164-172, the loop over a sequence of elements
RECURSIVE ValidateAll(_)
ValidateAll(items) ==
    IF items = <<>> THEN Ok(<<>>)
    ELSE LET first == ValidateSolution(Head(items))
         IN  IF ~first.ok THEN first
             ELSE LET others == ValidateAll(Tail(items))
                  IN  IF others.ok THEN Ok(<<first.out>> \o others.out) ELSE others

\* claude_client.py:164-174: `for solution in solutions` iterates the items
\* of a list, the keys of a dict and the characters of a str, and is a
\* TypeError on None and on a number; a str or dict that gets through the
\* loop is returned as it is.
ValidateSolutions(solutions) ==
    CASE solutions.t = "arr" ->
            LET r == ValidateAll(solutions.a)
            IN  IF r.ok THEN Ok(JArr(r.out)) ELSE r
      [] solutions.t = "obj" ->
            LET r == ValidateAll([i \in 1..Len(solutions.o) |-> JStr(solutions.o[i].k)])
            IN  IF r.ok THEN Ok(solutions) ELSE r
      [] solutions.t = "str" ->
            IF solutions.s = <<>> THEN Ok(solutions) ELSE Raise("TypeError")
      [] OTHER -> Raise("TypeError")

ToolIdList(ids) == JArr([i \in 1..Len(ids) |-> JStr(<<ids[i]>>)])

\* claude_client.py:177-182
Fallback(response_text, ids) ==
    JArr(<< JObj(<< [k |-> K_title, v |-> JStr(<<"Raw Response (JSON Parse Failed)">>)],
                    [k |-> K_prompt, v |-> JStr(response_text.raw)],
                    [k |-> K_tools_used, v |-> ToolIdList(ids)],
                    [k |-> K_tags, v |-> JArr(<< JStr(<<"parse_error">>) >>)] >>) >>)

\* ClaudeClient._parse_response: only JSONDecodeError is caught; `parsed.get`
\* is an AttributeError when the document is not a dict.
ParseResponse(response_text, ids) ==
    LET loaded == JsonLoads(response_text)
    IN  IF ~loaded.ok
        THEN Ok(Fallback(response_text, ids))
        ELSE IF loaded.out.t # "obj"
        THEN Raise("AttributeError")
        ELSE ValidateSolutions(DictGet(loaded.out, <<"solutions">>, JArr(<<>>)))

\* ------------------------------------------------------------------------
\* Inputs of the parser
\* ------------------------------------------------------------------------
ItemEntries ==
    << [k |-> K_title, v |-> JStr(<<"A">>)],
       [k |-> K_prompt, v |-> JStr(<<"Ask about ", "{", "tools", "}">>)],
       [k |-> K_tools_used, v |-> JArr(<< JStr(<<"spotify">>) >>)],
       [k |-> K_tags, v |-> JArr(<< JStr(<<"quick">>), JStr(<<"music">>) >>)],
       [k |-> <<"difficulty">>, v |-> JNum(3)] >>

ItemWithKeys(S) == JObj(SelectSeq(ItemEntries, LAMBDA e : e.k \in S))

\* Solution-like mappings: every subset of the four keys and one unknown key,
\* a mapping whose title is null, and one with its keys in another order
MappingItems ==
    {ItemWithKeys(S) : S \in SUBSET (SolutionKeys \cup {<<"difficulty">>})}
    \cup {JObj(<< [k |-> K_title, v |-> JNull] >>),
          JObj(<< [k |-> K_tags, v |-> JArr(<<>>)], [k |-> K_title, v |-> JStr(<<"B">>)] >>)}

AllKeysString ==
    JStr(<<"title", " ", "prompt", " ", "tools", "_", "used", " ", "tags">>)
AllKeysList == JArr(<< JStr(K_title), JStr(K_prompt), JStr(K_tools_used), JStr(K_tags) >>)

\* elements of `solutions` that are not mappings
OtherItems ==
    {JNum(1), JNull, JStr(<<"oops">>), JStr(<<"title">>), AllKeysString,
     JArr(<<>>), AllKeysList}

Items == MappingItems \cup OtherItems

\* values of the `solutions` key
SolutionsValues ==
    {JArr(l) : l \in SeqsUpTo(Items, MaxSolutions)}
    \cup {JNull, JNum(5), JStr(<<>>), JStr(<<"abc">>), JObj(<<>>),
          JObj(<< [k |-> <<"a">>, v |-> JNum(1)] >>),
          JObj(<< [k |-> <<"title", " ", "prompt", " ", "tools", "_", "used", " ", "tags">>,
                   v |-> JNum(1)] >>)}

ObjectDocs ==
    {JObj(<<>>), JObj(<< [k |-> <<"note">>, v |-> JStr(<<"hi">>)] >>)}
    \cup {JObj(<< [k |-> <<"solutions">>, v |-> sv] >>) : sv \in SolutionsValues}
    \cup {JObj(<< [k |-> <<"model">>, v |-> JStr(<<"m">>)],
                  [k |-> <<"solutions">>, v |-> JArr(<<it>>)] >>) : it \in Items}

NonObjectDocs ==
    {JArr(<<>>), JArr(<< ItemWithKeys({K_title}) >>), JStr(<<"hello">>), JNum(7), JNull}

MalformedTexts ==
    {MalformedText(<<"not json">>), MalformedText(<<>>),
     MalformedText(<<"{", "\"", "solutions", "\"", ":", "[">>)}

ResponseTexts ==
    MalformedTexts \cup {JsonText(d) : d \in ObjectDocs \cup NonObjectDocs}

ToolIdLists == {<<>>, <<"x", "y">>, <<"y", "x">>}

\* ------------------------------------------------------------------------
\* Inputs of the composer and of generate
\* ------------------------------------------------------------------------
TemplateTokens == {"{", "}", "problem", "tools", "X:"}

\* "X:{problem} Y:{tools}"
ExampleTemplate == <<"X:", "{", "problem", "}", " Y:", "{", "tools", "}">>

Templates ==
    {None} \cup {Some(t) : t \in SeqsUpTo(TemplateTokens, MaxTplLen)
                                  \cup {ExampleTemplate, DEFAULT_USER_PROMPT}}

Problems == {<<"P">>, <<"Use ", "{", "tools", "}", " and ", "{", "X:", "}">>}

ToolLists == SeqsUpTo(Tools, MaxTools)

\* ------------------------------------------------------------------------
\* Descriptors for the renderer: Simple ones with any of the four optional
\* keys, Complex ones with one sub-system over any inputs, ill-typed ones
\* ------------------------------------------------------------------------
\* Simple descriptors without `inputs`
SimpleTools ==
    LET SimpleValue(key) ==
            CASE key = "tool_id" -> "notion"
              [] key = "display_name" -> "Notion"
              [] key = "category" -> "Notes"
              [] key = "integration_status" -> "API"
    IN  {[key \in S |-> SimpleValue(key)] :
            S \in SUBSET {"tool_id", "display_name", "category", "integration_status"}}

\* Complex descriptors with one sub-system, over every `inputs` mapping
\* (distinct keys) of up to MaxInputs of these inputs
ComplexTools ==
    LET InputChoices ==
            {[k |-> "heart", v |-> [attributes |-> WatchAttributes]],
             [k |-> "sleep", v |-> [attributes |-> SleepAttributes]],
             [k |-> "notes", v |-> [attributes |-> JStr(<<"free text">>)]],
             [k |-> "misc", v |-> [label |-> "none"]],
             [k |-> "card", v |-> [attributes |-> JObj(<< [k |-> <<"card", "_", "no">>,
                                                           v |-> JStr(<<"secret">>)] >>)]],
             [k |-> "text", v |-> JStr(<<"see manual">>)],
             [k |-> "count", v |-> JNum(5)]}
        InputMappings ==
            {ins \in SeqsUpTo(InputChoices, MaxInputs) :
                \A i, j \in 1..Len(ins) : ins[i].k = ins[j].k => i = j}
    IN  {[main_system |-> "Hub", integration_score |-> 7,
          sub_systems |-> << [k |-> "core",
                              v |-> [system_name |-> "Core", inputs |-> ins]] >>] :
            ins \in InputMappings}

\* a Simple descriptor one of whose inputs is not a mapping
ToolIllTyped ==
    [tool_id |-> "legacy",
     inputs |-> << [k |-> "notes", v |-> [use_cases |-> << <<"read notes">> >>]],
                   [k |-> "export", v |-> JStr(<<"csv">>)] >>]

RenderLists ==
    SeqsUpTo(Tools, MaxTools)
    \cup {<<tool>> : tool \in SimpleTools \cup ComplexTools \cup {ToolIllTyped}}
    \cup {<<ToolMaps, tool>> : tool \in {ToolIllTyped}}

\* ------------------------------------------------------------------------
\* The external model call   (claude_client.py:44-54)
\* ------------------------------------------------------------------------
CLAUDE_MODEL == "claude-3-5-sonnet-20241022"
\* prices in dollars per million tokens, i.e. micro-dollars per token
CLAUDE_INPUT_PRICE == 3
CLAUDE_OUTPUT_PRICE == 15

ApiErrors ==
    {[type |-> "AuthenticationError", msg |-> <<"invalid x-api-key">>],
     [type |-> "RateLimitError", msg |-> <<"rate limit exceeded">>]}

TypicalUsage == [input_tokens |-> 1200, output_tokens |-> 350]

\* response.usage: the token counts the API reports
Usages == {[input_tokens |-> 0, output_tokens |-> 0],
           TypicalUsage,
           [input_tokens |-> 1000000, output_tokens |-> 0],
           [input_tokens |-> 0, output_tokens |-> 1000000]}

ApiTexts ==
    {MalformedText(<<"not json">>),
     JsonText(JArr(<<>>)),
     JsonText(JObj(<<>>)),
     JsonText(JObj(<< [k |-> <<"solutions">>, v |-> JArr(<< ItemWithKeys({K_title}) >>)] >>)),
     JsonText(JObj(<< [k |-> <<"solutions">>, v |-> JArr(<< JNum(1) >>)] >>))}

\* response.content is a list of blocks; the code reads block 0
\* every text with the typical usage, every usage with one text, and a
\* response without content blocks
Responses ==
    {[content |-> <<t>>, usage |-> TypicalUsage] : t \in ApiTexts}
    \cup {[content |-> << JsonText(JObj(<<>>)) >>, usage |-> u] : u \in Usages}
    \cup {[content |-> <<>>, usage |-> [input_tokens |-> 10, output_tokens |-> 0]]}

Latencies == {850}

\* claude_client.py:54
WrapErrorNot(e) == e

WrapError(e) == [type |-> "Exception", msg |-> <<"Claude API error: ">> \o e.msg]

\* the two prices exchanged
CostOfSwapped(usage) ==
    usage.input_tokens * CLAUDE_OUTPUT_PRICE + usage.output_tokens * CLAUDE_INPUT_PRICE

\* claude_client.py:63-65, in micro-dollars
CostOf(usage) ==
    usage.input_tokens * CLAUDE_INPUT_PRICE + usage.output_tokens * CLAUDE_OUTPUT_PRICE

\* claude_client.py:59
ExtractToolIds(tools) ==
    IF \A i \in 1..Len(tools) : Has(tools[i], "tool_id")
    THEN Ok([i \in 1..Len(tools) |-> tools[i].tool_id])
    ELSE Raise("KeyError")

\* ------------------------------------------------------------------------
\* FileManager   (file_manager.py)
\* A directory is the sequence of its *.json files in glob order.  A file has
\* a modification time and a content: a text (its characters and what
\* json.load makes of them), the record save_test_result dumped into it, or
\* nothing that can be read.
\* ------------------------------------------------------------------------
Unreadable == [unreadable |-> TRUE]

\* open(file_path) and json.load(f)
ReadJson(file) ==
    IF "unreadable" \in DOMAIN file.content THEN Raise("OSError")
    ELSE IF "data" \in DOMAIN file.content THEN Ok(file.content.data)
    ELSE JsonLoads(file.content)

\* file_manager.py:14-25
RECURSIVE LoadProblems(_)
LoadProblems(files) ==
    IF files = <<>> THEN <<>>
    ELSE LET data == ReadJson(Head(files))
         IN  (IF ~data.ok THEN <<>>
              ELSE IF data.out.t = "arr" THEN data.out.a
              ELSE <<data.out>>)
             \o LoadProblems(Tail(files))

\* a loop that gives up at the first file it cannot load
RECURSIVE AppendEachUntilBad(_)
AppendEachUntilBad(files) ==
    IF files = <<>> THEN <<>>
    ELSE LET data == ReadJson(Head(files))
         IN  IF data.ok THEN <<data.out>> \o AppendEachUntilBad(Tail(files)) ELSE <<>>

\* file_manager.py:46-51 and 114-119: append json.load(f) of each file, a
\* file that raises is reported and passed over
RECURSIVE AppendEach(_)
AppendEach(files) ==
    IF files = <<>> THEN <<>>
    ELSE LET data == ReadJson(Head(files))
         IN  (IF data.ok THEN <<data.out>> ELSE <<>>) \o AppendEach(Tail(files))

\* load_tools() without tool ids   (file_manager.py:29-52)
LoadTools(files) == AppendEach(files)

\* sorted(..., key=st_mtime, reverse=True): newest first, files of equal
\* time in their glob order
SortNewestFirst(files) ==
    LET rank(i) == 1 + Cardinality({j \in 1..Len(files) :
                        \/ files[j].mtime > files[i].mtime
                        \/ files[j].mtime = files[i].mtime /\ j < i})
    IN  [r \in 1..Len(files) |-> files[CHOOSE i \in 1..Len(files) : rank(i) = r]]

\* file_manager.py:102-120
LoadTestHistory(files, limit) == AppendEach(Take(SortNewestFirst(files), limit))

\* Python truthiness of a decoded JSON value
TruthyJson(data) ==
    CASE data.t = "null" -> FALSE
      [] data.t = "num" -> data.n # 0
      [] data.t = "str" -> data.s # <<>>
      [] data.t = "arr" -> data.a # <<>>
      [] data.t = "obj" -> data.o # <<>>

TemplateRecord(system, user) ==
    JObj(<< [k |-> <<"system">>, v |-> system], [k |-> <<"user">>, v |-> user] >>)

\* file_manager.py:54-69; `file` is None when the store file does not exist.
\* The test of line 62 looks at the first value only; .values() of a value
\* that is no dict raises, and the bare except returns {}.
LoadTemplates(file) ==
    IF IsNone(file) THEN JObj(<<>>)
    ELSE LET read == ReadJson(file.val)
         IN  IF ~read.ok THEN JObj(<<>>)
             ELSE LET data == read.out
                  IN  IF ~TruthyJson(data) THEN data
                      ELSE IF data.t # "obj" THEN JObj(<<>>)
                      ELSE IF data.o[1].v.t = "str"
                      THEN JObj([i \in 1..Len(data.o) |->
                                   [k |-> data.o[i].k,
                                    v |-> TemplateRecord(data.o[i].v, JStr(<<>>))]])
                      ELSE data

\* ------------------------------------------------------------------------
\* Directories and template stores to load
\* ------------------------------------------------------------------------
RecordOf(id) == JObj(<< [k |-> <<"id">>, v |-> JStr(<<id>>)] >>)

\* directories of up to MaxFiles files: unreadable, not JSON, one object,
\* an array of two objects
CatalogDirs ==
    LET CatalogContents ==
            {Unreadable,
             MalformedText(<<"not json">>),
             JsonText(RecordOf("a")),
             JsonText(JArr(<< RecordOf("b"), RecordOf("c") >>))}
    IN  {[i \in 1..Len(cs) |-> [mtime |-> i, content |-> cs[i]]] :
            cs \in SeqsUpTo(CatalogContents, MaxFiles)}

\* the result files in any glob order, with distinct modification times
HistoryDirs ==
    LET HistoryContents == {Unreadable, JsonText(RecordOf("a")), JsonText(RecordOf("b"))}
    IN  UNION {{[i \in 1..Len(cs) |-> [mtime |-> m[i], content |-> cs[i]]] :
                   m \in Permutations(1..Len(cs))} :
               cs \in SeqsUpTo(HistoryContents, MaxFiles)}

\* load_test_history's default limit (file_manager.py:102)
DefaultLimit == 50

HistoryLimits == {1, 2, DefaultLimit}

\* json.load of the characters json.dump wrote: a recursive descent over the
\* tokens, None for text that is not one JSON value
\* (file_manager.py:61, 80-81)
Decode(raw) ==
    LET Bad == [bad |-> TRUE]
        IsBad(r) == "bad" \in DOMAIN r
        At(i) == IF i <= Len(raw) THEN raw[i] ELSE "<end>"
        Numbers == 0..10
        RECURSIVE ValueAt(_), ValueList(_, _), MemberList(_, _)
        \* the value that starts at token i, and where the text goes on
        ValueAt(i) ==
            CASE At(i) = "null" -> [v |-> JNull, next |-> i + 1]
              [] \E n \in Numbers : At(i) = NumStr(n) ->
                    [v |-> JNum(CHOOSE n \in Numbers : At(i) = NumStr(n)), next |-> i + 1]
              [] At(i) = "\"" ->
                    IF \E j \in (i + 1)..Len(raw) : raw[j] = "\""
                    THEN LET close == CHOOSE j \in (i + 1)..Len(raw) :
                                         /\ raw[j] = "\""
                                         /\ \A m \in (i + 1)..(j - 1) : raw[m] # "\""
                         IN  [v |-> JStr(SubSeq(raw, i + 1, close - 1)), next |-> close + 1]
                    ELSE Bad
              [] At(i) = "[" ->
                    IF At(i + 1) = "]" THEN [v |-> JArr(<<>>), next |-> i + 2]
                    ELSE ValueList(i + 1, <<>>)
              [] At(i) = "{" ->
                    IF At(i + 1) = "}" THEN [v |-> JObj(<<>>), next |-> i + 2]
                    ELSE MemberList(i + 1, <<>>)
              [] OTHER -> Bad
        \* the items of an array from token i on, `done` read so far
        ValueList(i, done) ==
            LET item == ValueAt(i)
            IN  IF IsBad(item) THEN Bad
                ELSE IF At(item.next) = "," THEN ValueList(item.next + 1, Append(done, item.v))
                ELSE IF At(item.next) = "]"
                THEN [v |-> JArr(Append(done, item.v)), next |-> item.next + 1]
                ELSE Bad
        \* the entries of an object from token i on; a repeated key keeps
        \* its place and takes the later value
        MemberList(i, done) ==
            LET key == ValueAt(i)
            IN  IF IsBad(key) \/ At(i) # "\"" THEN Bad
                ELSE IF At(key.next) # ":" THEN Bad
                ELSE LET item == ValueAt(key.next + 1)
                     IN  IF IsBad(item) THEN Bad
                         ELSE LET entry == [k |-> key.v.s, v |-> item.v]
                                  seen == \E m \in 1..Len(done) : done[m].k = entry.k
                                  more == IF seen
                                          THEN [m \in 1..Len(done) |->
                                                  IF done[m].k = entry.k THEN entry ELSE done[m]]
                                          ELSE Append(done, entry)
                              IN  IF At(item.next) = "," THEN MemberList(item.next + 1, more)
                                  ELSE IF At(item.next) = "}"
                                  THEN [v |-> JObj(more), next |-> item.next + 1]
                                  ELSE Bad
        top == ValueAt(1)
    IN  IF IsBad(top) \/ top.next # Len(raw) + 1 THEN None ELSE Some(top.v)

\* file_manager.py:71-81: the content written, or the TypeError of the item
\* assignment when load_templates returned a falsy value that is no dict.
\* templates[name] = value keeps the place of a key the dict has; json.dump
\* writes the characters, and the content is what reading them back gives.
SaveTemplate(file, name, system_content, user_content) ==
    LET templates == LoadTemplates(file)
        value == TemplateRecord(JStr(system_content), JStr(user_content))
        SetItem(obj) ==
            IF HasKey(obj, name)
            THEN JObj([i \in 1..Len(obj.o) |->
                         IF obj.o[i].k = name THEN [k |-> name, v |-> value]
                         ELSE obj.o[i]])
            ELSE SetNew(obj, name, value)
        JsonDump(v) == [raw |-> Dumps(v), doc |-> Decode(Dumps(v))]
    IN  IF templates.t # "obj" THEN Raise("TypeError")
        ELSE Ok(JsonDump(SetItem(templates)))

TemplateNames == {<<"a">>, <<"b">>, <<"c">>}

\* a store maps distinct names to legacy strings or {system, user} mappings
TemplateStores ==
    LET TemplateValues == {JStr(<<"S">>), TemplateRecord(JStr(<<"x">>), JStr(<<"y">>))}
    IN  {JObj(es) :
            es \in {e \in SeqsUpTo([k : TemplateNames, v : TemplateValues], MaxTemplates) :
                       \A i, j \in 1..Len(e) : e[i].k = e[j].k => i = j}}

TemplateFiles ==
    {None}
    \cup {Some([mtime |-> 1, content |-> c]) :
             c \in {Unreadable, MalformedText(<<"not json">>),
                    JsonText(JArr(<< JStr(<<"S">>) >>)), JsonText(JNull)}
                   \cup {JsonText(store) : store \in TemplateStores}}

\* ------------------------------------------------------------------------
\* State
\* ------------------------------------------------------------------------
VARIABLES
    args, ret,          \* a call of a pure function: its arguments, its outcome
    pc,                 \* position of generate: idle, build, call, parse, cost,
                        \* assemble, returned, raised
    request,            \* the arguments of the current generate call
    user_prompt,        \* generate's local: the composed prompt
    api_calls,          \* invocations of messages.create in this orchestration
    api_error,          \* the error messages.create raised, if it did
    api_request,        \* the arguments messages.create was called with
    response,           \* generate's local: the response of the call
    latency_ms,
    parsed,             \* generate's local `solutions`
    total_cost_usd,     \* generate's local `total_cost`
    result,             \* the dict generate returned
    raised,             \* the exception generate raised
    events,             \* steps taken by this orchestration, in order
    total_tokens, total_cost, test_count,   \* CostTracker's fields
    added,              \* the add_test calls since the last reset
    last_op, got,       \* the last CostTracker call and what it returned
    disk,               \* the data directories and the template store file
    api_key,            \* the environment's ANTHROPIC_API_KEY
    client,             \* st.session_state.claude_client, once constructed
    app,                \* the app script: off, start, stopped, ready, generating,
                        \* counted
    session_state,      \* st.session_state's current_results, current_test_id
    ui_error,           \* what st.error showed in this run of the script
    clicked,            \* the click on Generate being handled: the problem
                        \* selected and the session as it was
    clicks,             \* clicks on Generate in this session
    returns             \* history: the metadata of the results generate returned
                        \* to the handler since the last reset

harnessVars == <<args, ret>>
genVars == <<pc, request, user_prompt, api_calls, api_error, api_request, response, latency_ms,
             parsed, total_cost_usd, result, raised, events>>
trackerVars == <<total_tokens, total_cost, test_count>>
trackerLog == <<added, last_op, got>>
appVars == <<disk, api_key, client, app, session_state, ui_error, clicked, clicks, returns>>
vars == <<harnessVars, genVars, trackerVars, trackerLog, appVars>>

HarnessIdle == args = None /\ ret = None

GenIdle ==
    /\ pc = "idle"
    /\ user_prompt = None
    /\ api_calls = 0
    /\ api_error = None
    /\ api_request = None
    /\ response = None
    /\ latency_ms = 0
    /\ parsed = None
    /\ total_cost_usd = 0
    /\ result = None
    /\ raised = None
    /\ events = <<>>

\* the data directories empty and no template store file
EmptyDisk == [problems |-> <<>>, tools |-> <<>>, results |-> <<>>, templates |-> None]

\* no session open
NoSession ==
    /\ api_key = None
    /\ client = None
    /\ app = "off"
    /\ session_state = None
    /\ ui_error = None
    /\ clicked = None
    /\ clicks = 0
    /\ returns = <<>>

AppIdle == disk = EmptyDisk /\ NoSession

\* CostTracker.__init__
TrackerInit ==
    /\ total_tokens = 0
    /\ total_cost = 0
    /\ test_count = 0
    /\ added = <<>>
    /\ last_op = "init"
    /\ got = None

\* ------------------------------------------------------------------------
\* _parse_response applied to every text and tool-id list
\* ------------------------------------------------------------------------
InitParse ==
    /\ args \in [response_text : ResponseTexts, tool_ids : ToolIdLists]
    /\ ret = None
    /\ request = None
    /\ GenIdle /\ TrackerInit /\ AppIdle

CallParse ==
    /\ ret = None
    /\ ret' = Some(ParseResponse(args.response_text, args.tool_ids))
    /\ UNCHANGED <<args, genVars, trackerVars, trackerLog, appVars>>

NextParse == CallParse

SpecParse == InitParse /\ [][NextParse]_vars

\* ------------------------------------------------------------------------
\* _build_user_prompt applied to every problem, tool list and template
\* ------------------------------------------------------------------------
InitCompose ==
    /\ args \in [problem : Problems, tools : ToolLists, user_prompt_template : Templates]
    /\ ret = None
    /\ request = None
    /\ GenIdle /\ TrackerInit /\ AppIdle

CallCompose ==
    /\ ret = None
    /\ ret' = Some(BuildUserPrompt(args.problem, args.tools, args.user_prompt_template))
    /\ UNCHANGED <<args, genVars, trackerVars, trackerLog, appVars>>

NextCompose == CallCompose

SpecCompose == InitCompose /\ [][NextCompose]_vars

\* ------------------------------------------------------------------------
\* The rendering loop of _build_user_prompt applied to every tool list
\* ------------------------------------------------------------------------
InitRender ==
    /\ args \in [tools : RenderLists]
    /\ ret = None
    /\ request = None
    /\ GenIdle /\ TrackerInit /\ AppIdle

CallRender ==
    /\ ret = None
    /\ ret' = Some(RenderOutcome(args.tools))
    /\ UNCHANGED <<args, genVars, trackerVars, trackerLog, appVars>>

NextRender == CallRender

SpecRender == InitRender /\ [][NextRender]_vars

\* ------------------------------------------------------------------------
\* FileManager's loads applied to every directory and template store
\* ------------------------------------------------------------------------
LoadDisks ==
    {[EmptyDisk EXCEPT !.problems = d] : d \in CatalogDirs}
    \cup {[EmptyDisk EXCEPT !.tools = d] : d \in CatalogDirs}
    \cup {[EmptyDisk EXCEPT !.results = d] : d \in HistoryDirs}
    \cup {[EmptyDisk EXCEPT !.templates = f] : f \in TemplateFiles}

InitLoad ==
    /\ HarnessIdle /\ GenIdle /\ TrackerInit /\ NoSession
    /\ request = None
    /\ disk \in LoadDisks

CallLoadProblems ==
    /\ ret = None
    /\ args' = [op |-> "load_problems"]
    /\ ret' = Some(LoadProblems(disk.problems))
    /\ UNCHANGED <<genVars, trackerVars, trackerLog, appVars>>

CallLoadTools ==
    /\ ret = None
    /\ args' = [op |-> "load_tools"]
    /\ ret' = Some(LoadTools(disk.tools))
    /\ UNCHANGED <<genVars, trackerVars, trackerLog, appVars>>

CallLoadTemplates ==
    /\ ret = None
    /\ args' = [op |-> "load_templates"]
    /\ ret' = Some(LoadTemplates(disk.templates))
    /\ UNCHANGED <<genVars, trackerVars, trackerLog, appVars>>

CallLoadTestHistory ==
    /\ ret = None
    /\ \E limit \in HistoryLimits :
          /\ args' = [op |-> "load_test_history", limit |-> limit]
          /\ ret' = Some(LoadTestHistory(disk.results, limit))
    /\ UNCHANGED <<genVars, trackerVars, trackerLog, appVars>>

NextLoad ==
    \/ CallLoadProblems
    \/ CallLoadTools
    \/ CallLoadTemplates
    \/ CallLoadTestHistory

SpecLoad == InitLoad /\ [][NextLoad]_vars

\* the store file is there or not, in any of the modelled contents
InitStore ==
    /\ HarnessIdle /\ GenIdle /\ TrackerInit /\ NoSession
    /\ request = None
    /\ disk \in {[EmptyDisk EXCEPT !.templates = f] : f \in TemplateFiles}

\* save_template(name, system_content, user_content); the file's mtime
\* counts its writes   (file_manager.py:71-81)
CallSaveTemplate ==
    /\ (IF IsNone(disk.templates) THEN 0 ELSE disk.templates.val.mtime) <= MaxSaves
    /\ \E name \in TemplateNames, system \in {<<"T">>, <<"{", "problem", "}">>},
          user \in {<<>>, <<"U">>} :
          LET saved == SaveTemplate(disk.templates, name, system, user)
              written == IF IsNone(disk.templates) THEN 0 ELSE disk.templates.val.mtime
          IN  /\ args' = [op |-> "save_template", name |-> name,
                          system_content |-> system, user_content |-> user]
              /\ IF saved.ok
                 THEN /\ ret' = Some(Ok(None))
                      /\ disk' = [disk EXCEPT !.templates =
                                    Some([mtime |-> written + 1, content |-> saved.out])]
                 ELSE /\ ret' = Some(saved)
                      /\ UNCHANGED disk
    /\ UNCHANGED <<api_key, client, app, session_state, ui_error, clicked, clicks, returns>>
    /\ UNCHANGED <<genVars, trackerVars, trackerLog>>

NextStore == CallSaveTemplate

SpecStore == InitStore /\ [][NextStore]_vars

\* ------------------------------------------------------------------------
\* ClaudeClient.generate, one action per step   (claude_client.py:25-78)
\* ------------------------------------------------------------------------
Requests ==
    [problem : {<<"P">>}, problem_id : {"p1"}, tools : ToolLists,
     system_prompt : {<<"S">>}, user_prompt_template : Templates,
     temperature : {8}, max_tokens : {4000}]

Exception(type) == [type |-> type, msg |-> <<>>]

\* generate is called with the arguments in `request`: a fresh frame
\* (claude_client.py:25-36)
Generate ==
    /\ pc \in {"idle", "returned", "raised"}
    /\ pc' = "build"
    /\ user_prompt' = None
    /\ api_calls' = 0
    /\ api_error' = None
    /\ api_request' = None
    /\ response' = None
    /\ latency_ms' = 0
    /\ parsed' = None
    /\ total_cost_usd' = 0
    /\ result' = None
    /\ raised' = None
    /\ events' = <<>>
    /\ UNCHANGED <<request, harnessVars, trackerVars, trackerLog, appVars>>

\* claude_client.py:38
BuildPrompt ==
    /\ pc = "build"
    /\ LET r == BuildUserPrompt(request.val.problem, request.val.tools,
                                request.val.user_prompt_template)
       IN  IF r.ok
           THEN /\ user_prompt' = Some(r.out)
                /\ events' = Append(events, "compose")
                /\ pc' = "call"
                /\ UNCHANGED raised
           ELSE /\ raised' = Some(Exception(r.exc))
                /\ pc' = "raised"
                /\ UNCHANGED <<user_prompt, events>>
    /\ UNCHANGED <<request, api_calls, api_error, api_request, response, latency_ms,
                   parsed, total_cost_usd, result>>
    /\ UNCHANGED <<harnessVars, trackerVars, trackerLog, appVars>>

\* claude_client.py:44-52, the arguments of messages.create
ApiRequest ==
    [model |-> CLAUDE_MODEL,
     max_tokens |-> request.val.max_tokens,
     temperature |-> request.val.temperature,
     system |-> request.val.system_prompt,
     messages |-> << [role |-> "user", content |-> user_prompt.val] >>]

\* claude_client.py:41-56, the call returns
CallModelOk ==
    /\ pc = "call"
    /\ api_calls' = api_calls + 1
    /\ api_request' = Some(ApiRequest)
    /\ \E r \in Responses : response' = Some(r)
    /\ \E l \in Latencies : latency_ms' = l
    /\ events' = Append(events, "call")
    /\ pc' = "parse"
    /\ UNCHANGED <<request, user_prompt, api_error, parsed, total_cost_usd, result, raised>>
    /\ UNCHANGED <<harnessVars, trackerVars, trackerLog, appVars>>

\* a client that calls again after an error
CallModelErrorRetry ==
    /\ pc = "call"
    /\ api_calls < 2
    /\ api_calls' = api_calls + 1
    /\ api_request' = Some(ApiRequest)
    /\ \E e \in ApiErrors :
          /\ api_error' = Some(e)
          /\ raised' = IF api_calls = 0 THEN None ELSE Some(WrapError(e))
    /\ events' = Append(events, "call")
    /\ pc' = IF api_calls = 0 THEN "call" ELSE "raised"
    /\ UNCHANGED <<request, user_prompt, response, latency_ms, parsed, total_cost_usd, result>>
    /\ UNCHANGED <<harnessVars, trackerVars, trackerLog, appVars>>

\* claude_client.py:43-54, the call raises
CallModelError ==
    /\ pc = "call"
    /\ api_calls' = api_calls + 1
    /\ api_request' = Some(ApiRequest)
    /\ \E e \in ApiErrors :
          /\ api_error' = Some(e)
          /\ raised' = Some(WrapError(e))
    /\ events' = Append(events, "call")
    /\ pc' = "raised"
    /\ UNCHANGED <<request, user_prompt, response, latency_ms, parsed, total_cost_usd, result>>
    /\ UNCHANGED <<harnessVars, trackerVars, trackerLog, appVars>>

\* claude_client.py:59-60: the tool ids, block 0 of the content, the parse
ParseStep ==
    /\ pc = "parse"
    /\ LET ids == ExtractToolIds(request.val.tools)
       IN  IF ~ids.ok
           THEN /\ raised' = Some(Exception(ids.exc))
                /\ pc' = "raised"
                /\ UNCHANGED <<parsed, events>>
           ELSE IF response.val.content = <<>>
           THEN /\ raised' = Some(Exception("IndexError"))
                /\ pc' = "raised"
                /\ UNCHANGED <<parsed, events>>
           ELSE LET r == ParseResponse(response.val.content[1], ids.out)
                IN  /\ events' = Append(events, "parse")
                    /\ IF r.ok
                       THEN /\ parsed' = Some(r.out)
                            /\ pc' = "cost"
                            /\ UNCHANGED raised
                       ELSE /\ raised' = Some(Exception(r.exc))
                            /\ pc' = "raised"
                            /\ UNCHANGED parsed
    /\ UNCHANGED <<request, user_prompt, api_calls, api_error, api_request, response,
                   latency_ms, total_cost_usd, result>>
    /\ UNCHANGED <<harnessVars, trackerVars, trackerLog, appVars>>

\* claude_client.py:63-65
ComputeCost ==
    /\ pc = "cost"
    /\ total_cost_usd' = CostOf(response.val.usage)
    /\ events' = Append(events, "cost")
    /\ pc' = "assemble"
    /\ UNCHANGED <<request, user_prompt, api_calls, api_error, api_request, response,
                   latency_ms, parsed, result, raised>>
    /\ UNCHANGED <<harnessVars, trackerVars, trackerLog, appVars>>

\* claude_client.py:67-78
Return ==
    /\ pc = "assemble"
    /\ result' = Some([solutions |-> parsed.val,
                       metadata |->
                          [tokens |-> response.val.usage.input_tokens
                                      + response.val.usage.output_tokens,
                           input_tokens |-> response.val.usage.input_tokens,
                           output_tokens |-> response.val.usage.output_tokens,
                           cost_usd |-> total_cost_usd,
                           latency_ms |-> latency_ms,
                           model |-> CLAUDE_MODEL,
                           temperature |-> request.val.temperature]])
    /\ events' = Append(events, "assemble")
    /\ pc' = "returned"
    /\ returns' = IF app = "generating"
                   THEN Append(returns, result'.val.metadata)
                   ELSE returns
    /\ UNCHANGED <<request, user_prompt, api_calls, api_error, api_request, response,
                   latency_ms, parsed, total_cost_usd, raised>>
    /\ UNCHANGED <<harnessVars, trackerVars, trackerLog>>
    /\ UNCHANGED <<disk, api_key, client, app, session_state, ui_error, clicked, clicks>>

\* a client about to be called with any of the requests
Init ==
    /\ HarnessIdle /\ GenIdle /\ TrackerInit /\ AppIdle
    /\ request \in {Some(r) : r \in Requests}

Next ==
    \/ Generate
    \/ BuildPrompt
    \/ CallModelOk
    \/ CallModelError
    \/ ParseStep
    \/ ComputeCost
    \/ Return

Spec == Init /\ [][Next]_vars

\* ------------------------------------------------------------------------
\* CostTracker   (cost_tracker.py:1-28); costs in micro-dollars
\* ------------------------------------------------------------------------
TokenArgs == {0, 50, 100}
CostArgs == {0, 250000, 500000}

InitTracker ==
    /\ HarnessIdle /\ GenIdle /\ TrackerInit /\ AppIdle
    /\ request = None

AddTestNoCount ==
    /\ Len(added) < MaxOps
    /\ \E tokens \in TokenArgs, cost \in CostArgs :
          /\ total_tokens' = total_tokens + tokens
          /\ total_cost' = total_cost + cost
          /\ test_count' = test_count
          /\ added' = Append(added, [tokens |-> tokens, cost |-> cost])
    /\ last_op' = "add_test"
    /\ got' = None
    /\ UNCHANGED <<harnessVars, genVars, appVars>>

\* CostTracker.add_test
AddTest ==
    /\ Len(added) < MaxOps
    /\ \E tokens \in TokenArgs, cost \in CostArgs :
          /\ total_tokens' = total_tokens + tokens
          /\ total_cost' = total_cost + cost
          /\ test_count' = test_count + 1
          /\ added' = Append(added, [tokens |-> tokens, cost |-> cost])
    /\ last_op' = "add_test"
    /\ got' = None
    /\ UNCHANGED <<harnessVars, genVars, appVars>>

\* CostTracker.reset
Reset ==
    /\ total_tokens' = 0
    /\ total_cost' = 0
    /\ test_count' = 0
    /\ added' = <<>>
    /\ last_op' = "reset"
    /\ got' = None
    /\ UNCHANGED <<harnessVars, genVars, appVars>>

\* CostTracker.get_total_tokens
GetTotalTokens ==
    /\ got' = Some(total_tokens)
    /\ last_op' = "get_total_tokens"
    /\ UNCHANGED <<trackerVars, added, harnessVars, genVars, appVars>>

\* CostTracker.get_total_cost
GetTotalCost ==
    /\ got' = Some(total_cost)
    /\ last_op' = "get_total_cost"
    /\ UNCHANGED <<trackerVars, added, harnessVars, genVars, appVars>>

\* CostTracker.get_test_count
GetTestCount ==
    /\ got' = Some(test_count)
    /\ last_op' = "get_test_count"
    /\ UNCHANGED <<trackerVars, added, harnessVars, genVars, appVars>>

NextTracker ==
    \/ AddTest
    \/ Reset
    \/ GetTotalTokens
    \/ GetTotalCost
    \/ GetTestCount

SpecTracker == InitTracker /\ [][NextTracker]_vars

\* ------------------------------------------------------------------------
\* Claims about _parse_response   (SpecParse)
\* ------------------------------------------------------------------------
ParseDone == ret # None
Doc == args.response_text.doc
DecodesToObject == ~IsNone(Doc) /\ Doc.val.t = "obj"
DecodeFails == IsNone(Doc) \/ Doc.val.t # "obj"

\* C1: for every raw text and every tool-id list, _parse_response returns a
\* list of solutions and never raises.
C1_NeverRaises ==
    ParseDone => (ret.val.ok /\ ret.val.out.t = "arr")

\* C2: when the raw text is malformed JSON or its top level is not an object,
\* the result is exactly one solution: the fixed title, the raw text as
\* prompt, the tool ids of the call as tools_used, tags = ["parse_error"].
C2_FallbackOnDecodeFailure ==
    (ParseDone /\ DecodeFails) =>
        /\ ret.val.ok
        /\ ret.val.out.t = "arr"
        /\ Len(ret.val.out.a) = 1
        /\ LET sol == ret.val.out.a[1]
           IN  /\ sol.t = "obj"
               /\ Len(sol.o) = 4
               /\ Keys(sol) = SolutionKeys
               /\ Lookup(sol, K_title) = JStr(<<"Raw Response (JSON Parse Failed)">>)
               /\ Lookup(sol, K_prompt) = JStr(args.response_text.raw)
               /\ Lookup(sol, K_tools_used) =
                      JArr([i \in 1..Len(args.tool_ids) |-> JStr(<<args.tool_ids[i]>>)])
               /\ Lookup(sol, K_tags) = JArr(<< JStr(<<"parse_error">>) >>)

\* the `solutions` list of the decoded object, [] when the key is absent
GivenSolutions == DictGet(Doc.val, <<"solutions">>, JArr(<<>>))

\* an output item is the input item with its keys kept and the missing ones
\* of the four set to their defaults
Backfilled(given, returned) ==
    /\ returned.t = "obj"
    /\ Keys(returned) = Keys(given) \cup SolutionKeys
    /\ Len(returned.o) = Cardinality(Keys(returned))
    /\ \A key \in Keys(given) : Lookup(returned, key) = Lookup(given, key)
    /\ Lookup(returned, K_title) =
          (IF HasKey(given, K_title) THEN Lookup(given, K_title) ELSE JStr(<<"Untitled Solution">>))
    /\ Lookup(returned, K_prompt) =
          (IF HasKey(given, K_prompt) THEN Lookup(given, K_prompt) ELSE JStr(<<"No prompt generated">>))
    /\ Lookup(returned, K_tools_used) =
          (IF HasKey(given, K_tools_used) THEN Lookup(given, K_tools_used) ELSE JArr(<<>>))
    /\ Lookup(returned, K_tags) =
          (IF HasKey(given, K_tags) THEN Lookup(given, K_tags) ELSE JArr(<<>>))

\* C3: when the raw text decodes to an object, the result is the `solutions`
\* sequence, same length and order, every item backfilled with the defaults
\* and otherwise unchanged.
C3_BackfillInOrder ==
    (ParseDone /\ DecodesToObject /\ GivenSolutions.t = "arr") =>
        /\ ret.val.ok
        /\ ret.val.out.t = "arr"
        /\ Len(ret.val.out.a) = Len(GivenSolutions.a)
        /\ \A i \in 1..Len(GivenSolutions.a) :
              GivenSolutions.a[i].t = "obj" =>
                  Backfilled(GivenSolutions.a[i], ret.val.out.a[i])

\* the same statement for `solutions` lists whose items are all mappings
C3_MappingsOnly ==
    (/\ ParseDone /\ DecodesToObject /\ GivenSolutions.t = "arr"
     /\ \A i \in 1..Len(GivenSolutions.a) : GivenSolutions.a[i].t = "obj") =>
        /\ ret.val.ok
        /\ ret.val.out.t = "arr"
        /\ Len(ret.val.out.a) = Len(GivenSolutions.a)
        /\ \A i \in 1..Len(GivenSolutions.a) :
              Backfilled(GivenSolutions.a[i], ret.val.out.a[i])

\* ------------------------------------------------------------------------
\* Claims about _build_user_prompt   (SpecCompose)
\* ------------------------------------------------------------------------
ComposeDone == ret # None
TemplateSupplied == ~IsNone(args.user_prompt_template)
Template == args.user_prompt_template.val
ToolText == RenderTools(args.tools)

\* the text with every {problem} replaced by p and every {tools} by t
RECURSIVE ReplacePlaceholders(_, _, _)
ReplacePlaceholders(text, p, t) ==
    IF text = <<>> THEN <<>>
    ELSE IF Len(text) >= 3 /\ SubSeq(text, 1, 3) = <<"{", "problem", "}">>
    THEN p \o ReplacePlaceholders(SubSeq(text, 4, Len(text)), p, t)
    ELSE IF Len(text) >= 3 /\ SubSeq(text, 1, 3) = <<"{", "tools", "}">>
    THEN t \o ReplacePlaceholders(SubSeq(text, 4, Len(text)), p, t)
    ELSE <<Head(text)>> \o ReplacePlaceholders(Tail(text), p, t)

HasBrace(text) == \E i \in 1..Len(text) : text[i] \in {"{", "}"}

\* every brace of the text belongs to a {problem} or a {tools}
OnlyTheTwoPlaceholders(text) == ~HasBrace(ReplacePlaceholders(text, <<>>, <<>>))

\* some brace-delimited field occurs in the text
HasPlaceholder(text) ==
    \E i, j \in 1..Len(text) : i < j /\ text[i] = "{" /\ text[j] = "}"

\* C7 as stated: for every supplied template the composed prompt is the
\* template with {problem} and {tools} replaced and all other text unchanged.
C7_ReplaceEveryTemplate ==
    (ComposeDone /\ TemplateSupplied) =>
        ret.val = Ok(ReplacePlaceholders(Template, args.problem, ToolText))

\* C7 amended: for every non-empty template whose braces all belong to
\* {problem} or {tools} placeholders, the composed prompt is the template with
\* every {problem} replaced by the problem text and every {tools} by the
\* rendered tool text, all other text unchanged.
C7_ReplaceWellFormed ==
    (ComposeDone /\ TemplateSupplied /\ Template # <<>> /\ OnlyTheTwoPlaceholders(Template)) =>
        ret.val = Ok(ReplacePlaceholders(Template, args.problem, ToolText))

C7_Witness ==
    /\ ComposeDone /\ TemplateSupplied
    /\ Template = ExampleTemplate
    /\ args.problem = <<"P">>
    /\ args.tools = <<ToolMaps>>
    /\ ret.val = Ok(<<"X:", "P", " Y:">> \o RenderTool(ToolMaps))

\* C8 as stated: every template without placeholders, the empty one included,
\* is returned unchanged.
C8_NoPlaceholderUnchanged ==
    (ComposeDone /\ TemplateSupplied /\ ~HasPlaceholder(Template)) =>
        ret.val = Ok(Template)

\* C8 amended: every non-empty template that contains no brace character is
\* returned unchanged, whatever the problem text and the tool list are; the
\* empty template yields the default prompt.
C8_LiteralUnchanged ==
    (ComposeDone /\ TemplateSupplied /\ ~HasBrace(Template)) =>
        IF Template # <<>>
        THEN ret.val = Ok(Template)
        ELSE ret.val = Ok(<<DefaultHead>> \o args.problem \o <<DefaultMiddle>>
                          \o ToolText \o <<DefaultTail>>)

C8_Witness ==
    /\ ComposeDone /\ TemplateSupplied
    /\ Template = <<"X:", "problem">>
    /\ args.tools # <<>>
    /\ HasBrace(args.problem)
    /\ ret.val = Ok(<<"X:", "problem">>)

\* C9: composing with no template gives the same string as composing with
\* DEFAULT_USER_PROMPT supplied as the template.
C9_DefaultTemplate ==
    (ComposeDone /\ ~TemplateSupplied) =>
        ret.val = BuildUserPrompt(args.problem, args.tools, Some(DEFAULT_USER_PROMPT))

C9_Witness ==
    /\ ComposeDone /\ ~TemplateSupplied
    /\ Len(args.tools) = 2
    /\ HasBrace(args.problem)
    /\ ret.val.ok
    /\ ret.val.out = ReplacePlaceholders(DEFAULT_USER_PROMPT, args.problem, ToolText)

\* ------------------------------------------------------------------------
\* Claims about generate   (Spec)
\* ------------------------------------------------------------------------
\* the field names str.format meets in a text, up to its first stray brace
RECURSIVE FieldNames(_)
FieldNames(text) ==
    IF text = <<>> THEN {}
    ELSE IF Len(text) >= 2 /\ SubSeq(text, 1, 2) \in {<<"{", "{">>, <<"}", "}">>}
    THEN FieldNames(SubSeq(text, 3, Len(text)))
    ELSE IF Head(text) = "}" THEN {}
    ELSE IF Head(text) = "{"
    THEN LET rest == Tail(text)
             j == FirstBrace(rest)
         IN  IF j = 0 \/ rest[j] = "{" THEN {}
             ELSE {SubSeq(rest, 1, j - 1)} \cup FieldNames(SubSeq(rest, j + 1, Len(rest)))
    ELSE FieldNames(Tail(text))

ReferencesUndefined(text) ==
    \E name \in FieldNames(text) : name \notin {<<"problem">>, <<"tools">>}

OmitsAPlaceholder(text) ==
    /\ OnlyTheTwoPlaceholders(text)
    /\ \/ <<"problem">> \notin FieldNames(text)
       \/ <<"tools">> \notin FieldNames(text)

RequestTemplate == request.val.user_prompt_template
BuildOver == pc \notin {"idle", "build"}

\* C4: a template that references a placeholder other than problem and tools
\* makes generate fail with the template's error while the model has not been
\* called; a template that omits one or both placeholders does not fail.
C4_TemplateErrorBeforeCall ==
    /\ (BuildOver /\ ~IsNone(RequestTemplate) /\ ReferencesUndefined(RequestTemplate.val)) =>
          /\ pc = "raised"
          /\ raised.val.type \in {"KeyError", "IndexError"}
          /\ api_calls = 0
          /\ api_request = None
          /\ events = <<>>
    /\ (BuildOver /\ ~IsNone(RequestTemplate) /\ OmitsAPlaceholder(RequestTemplate.val)) =>
          /\ user_prompt # None
          /\ Head(events) = "compose"

C4_Witness ==
    /\ pc = "raised"
    /\ RequestTemplate = Some(<<"{", "X:", "}">>)
    /\ raised = Some(Exception("KeyError"))
    /\ api_calls = 0

Steps == <<"compose", "call", "parse", "cost", "assemble">>
IsPrefix(s, t) == Len(s) <= Len(t) /\ SubSeq(t, 1, Len(s)) = s
Occurrences(s, e) == Cardinality({i \in 1..Len(s) : s[i] = e})

\* C6: in every orchestration the model is called at most once, after the
\* prompt has been composed (and with that prompt) and before the parse and
\* the cost computation.
C6_OneCallInOrder ==
    /\ api_calls <= 1
    /\ api_calls = Occurrences(events, "call")
    /\ IsPrefix(events, Steps)
    /\ api_calls = 1 =>
          /\ user_prompt # None
          /\ user_prompt.val = BuildUserPrompt(request.val.problem, request.val.tools,
                                               RequestTemplate).out
          /\ api_request.val.messages = << [role |-> "user", content |-> user_prompt.val] >>
          /\ api_request.val.system = request.val.system_prompt
    /\ (parsed # None \/ result # None \/ pc \in {"cost", "assemble", "returned"}) =>
          api_calls = 1

C6_Witness ==
    /\ pc = "returned"
    /\ api_calls = 1
    /\ events = Steps
    /\ result # None
    /\ Len(request.val.tools) = 2

\* ------------------------------------------------------------------------
\* Claims about CostTracker   (SpecTracker)
\* ------------------------------------------------------------------------
RECURSIVE SumOf(_, _)
SumOf(calls, field) ==
    IF calls = <<>> THEN 0 ELSE Head(calls)[field] + SumOf(Tail(calls), field)

Getters == {"get_total_tokens", "get_total_cost", "get_test_count"}

\* C10: the three fields are the sums and the number of the add_test calls
\* since the last reset; reset zeroes them; the getters change nothing.
C10_TrackerTotals ==
    /\ [](/\ total_tokens = SumOf(added, "tokens")
          /\ total_cost = SumOf(added, "cost")
          /\ test_count = Len(added)
          /\ last_op = "reset" => (total_tokens = 0 /\ total_cost = 0 /\ test_count = 0))
    /\ [][last_op' \in Getters =>
            /\ UNCHANGED <<total_tokens, total_cost, test_count, added>>
            /\ got' = Some(CASE last_op' = "get_total_tokens" -> total_tokens
                             [] last_op' = "get_total_cost" -> total_cost
                             [] last_op' = "get_test_count" -> test_count)]_vars

C10_Witness ==
    /\ added = << [tokens |-> 100, cost |-> 500000], [tokens |-> 50, cost |-> 250000] >>
    /\ total_tokens = 150
    /\ total_cost = 750000
    /\ test_count = 2
    /\ last_op = "get_test_count"
    /\ got = Some(2)

\* ------------------------------------------------------------------------
\* Claims about the cost of a generation   (Spec)
\* ------------------------------------------------------------------------
\* one dollar, the unit being the micro-dollar (claude_client.py:63)
MicroDollars == 1000000

\* C11: the cost_usd of a returned result is input_tokens/1e6 * 3.0 +
\* output_tokens/1e6 * 15.0 for the token counts the API reported, is never
\* negative, is 0 for 0/0 tokens, 3.0 for a million input tokens alone and
\* 15.0 for a million output tokens alone (amounts in micro-dollars).
C11_CostFormula ==
    result # None =>
        LET m == result.val.metadata
            u == response.val.usage
        IN  /\ m.input_tokens = u.input_tokens
            /\ m.output_tokens = u.output_tokens
            /\ m.cost_usd = m.input_tokens * 3 + m.output_tokens * 15
            /\ m.cost_usd >= 0
            /\ (m.input_tokens = 0 /\ m.output_tokens = 0) => m.cost_usd = 0
            /\ (m.input_tokens = 1000000 /\ m.output_tokens = 0)
                  => m.cost_usd = 3 * MicroDollars
            /\ (m.input_tokens = 0 /\ m.output_tokens = 1000000)
                  => m.cost_usd = 15 * MicroDollars

C11_Witness ==
    /\ pc = "returned"
    /\ result # None
    /\ result.val.metadata.input_tokens = 1000000
    /\ result.val.metadata.output_tokens = 0
    /\ result.val.metadata.cost_usd = 3 * MicroDollars

\* ------------------------------------------------------------------------
\* Claims about the rendered tool text   (SpecRender)
\* ------------------------------------------------------------------------
RenderDone == ret # None

\* the pieces of a text that follow each occurrence of a marker, each up to
\* the next occurrence
Pieces(text, marker) ==
    LET at == {i \in 1..Len(text) : text[i] = marker}
        nth(k) == CHOOSE i \in at : Cardinality({j \in at : j < i}) = k - 1
        end(k) == IF k = Cardinality(at) THEN Len(text) ELSE nth(k + 1) - 1
    IN  [k \in 1..Cardinality(at) |-> SubSeq(text, nth(k) + 1, end(k))]

Split(text, sep) == Pieces(<<sep>> \o text, sep)

Entries(text) == Pieces(text, "\n### ")

\* every input of the descriptor is a mapping
WellTypedInputs(holder) ==
    Has(holder, "inputs") =>
        \A i \in 1..Len(holder.inputs) : IsMapping(holder.inputs[i].v)

WellTyped(tool) ==
    IF Has(tool, "sub_systems")
    THEN \A j \in 1..Len(tool.sub_systems) : WellTypedInputs(tool.sub_systems[j].v)
    ELSE WellTypedInputs(tool)

AllWellTyped(tools) == \A i \in 1..Len(tools) : WellTyped(tools[i])

\* the name a descriptor's entry is headed with
HeadingOf(tool) ==
    IF "sub_systems" \in DOMAIN tool
    THEN (IF "main_system" \in DOMAIN tool THEN tool.main_system ELSE "Unknown Tool")
    ELSE IF "display_name" \in DOMAIN tool THEN tool.display_name
    ELSE IF "tool_id" \in DOMAIN tool THEN tool.tool_id
    ELSE "None"

\* C12: the tool text of a sequence of Simple and Complex descriptors has one
\* entry per descriptor, and the i-th entry is the one of the i-th descriptor.
C12_OneEntryPerToolInOrder ==
    (RenderDone /\ AllWellTyped(args.tools)) =>
        /\ ret.val.ok
        /\ LET entries == Entries(ret.val.out)
           IN  /\ Len(entries) = Len(args.tools)
               /\ \A i \in 1..Len(args.tools) :
                     Head(entries[i]) = HeadingOf(args.tools[i])

C12_Witness ==
    /\ RenderDone
    /\ args.tools = <<ToolWatch, ToolSpotify>>
    /\ ret.val.ok
    /\ Len(Entries(ret.val.out)) = 2
    /\ Head(Entries(ret.val.out)[1]) = "Apple Watch"
    /\ Head(Entries(ret.val.out)[2]) = "Spotify"

\* the values that qualify as capabilities of a sub-system: string values of
\* an input's `attributes` mapping under a key without underscore
Qualifying(sub_system) ==
    IF ~Has(sub_system, "inputs") THEN {}
    ELSE LET ins == {sub_system.inputs[i].v : i \in 1..Len(sub_system.inputs)}
             maps == {d.attributes.o : d \in {x \in ins : /\ IsMapping(x)
                                                          /\ "attributes" \in DOMAIN x
                                                          /\ x.attributes.t = "obj"}}
             found == UNION {{m[i] : i \in 1..Len(m)} : m \in maps}
         IN  {e.v.s : e \in {x \in found : /\ x.v.t = "str"
                                           /\ \A i \in 1..Len(x.k) : x.k[i] # "_"}}

CapabilitiesLabel == "- **Capabilities**: "

\* the values a sub-system's piece of the text lists on its capabilities line
Listed(piece) ==
    LET at == CHOOSE i \in 1..Len(piece) : piece[i] = CapabilitiesLabel
        rest == SubSeq(piece, at + 1, Len(piece))
        stop == CHOOSE i \in 1..Len(rest) :
                    rest[i] = "\n" /\ \A j \in 1..(i - 1) : rest[j] # "\n"
    IN  Split(SubSeq(rest, 1, stop - 1), ", ")

HasCapabilitiesLine(piece) == \E i \in 1..Len(piece) : piece[i] = CapabilitiesLabel

SubSystemPieces(entry) == Pieces(entry, "\n#### ")

\* C13: in the entry of a Complex descriptor, the capabilities line of a
\* sub-system lists at most 5 values, each a string value of some input's
\* `attributes` mapping under a key without underscore; non-string values and
\* non-mapping `attributes` are skipped without raising; there is no such
\* line when no value qualifies.
C13_Capabilities ==
    (RenderDone /\ AllWellTyped(args.tools)) =>
        /\ ret.val.ok
        /\ \A i \in 1..Len(args.tools) :
              Has(args.tools[i], "sub_systems") =>
                 LET subs == args.tools[i].sub_systems
                     pieces == SubSystemPieces(Entries(ret.val.out)[i])
                 IN  /\ Len(pieces) = Len(subs)
                     /\ \A j \in 1..Len(subs) :
                           IF HasCapabilitiesLine(pieces[j])
                           THEN /\ Len(Listed(pieces[j])) \in 1..5
                                /\ \A n \in 1..Len(Listed(pieces[j])) :
                                      Listed(pieces[j])[n] \in Qualifying(subs[j].v)
                           ELSE Cardinality(Qualifying(subs[j].v)) = 0

C13_Witness ==
    /\ RenderDone
    /\ args.tools = <<ToolWatch>>
    /\ ret.val.ok
    /\ Cardinality(Qualifying(ToolWatch.sub_systems[1].v)) = 6
    /\ Listed(SubSystemPieces(Entries(ret.val.out)[1])[1])
          = << <<"heart rate">>, <<"bpm">>, <<"csv">>, <<"sleep stages">>, <<"sleep score">> >>
    /\ ~HasCapabilitiesLine(SubSystemPieces(Entries(ret.val.out)[1])[3])

IsSimpleWithoutInputs(tool) ==
    "sub_systems" \notin DOMAIN tool /\ "inputs" \notin DOMAIN tool

\* the entry of a Simple descriptor without inputs: heading, id, category,
\* integration status and the closing blank line
PlainEntry(tool) ==
    <<HeadingOf(tool), "\n",
      "- **ID**: '", (IF "tool_id" \in DOMAIN tool THEN tool.tool_id ELSE "None"), "'\n",
      "- **Category**: ", (IF "category" \in DOMAIN tool THEN tool.category ELSE "Unknown"), "\n",
      "- **Integration**: ",
      (IF "integration_status" \in DOMAIN tool THEN tool.integration_status ELSE "Unknown"),
      "\n", "\n">>

\* C14: rendering a Simple descriptor without `inputs` never raises, and its
\* entry is only the heading (display_name, else tool_id), the id, the
\* category (default Unknown) and the integration status (default Unknown).
C14_SimpleWithoutInputs ==
    RenderDone =>
        \A i \in 1..Len(args.tools) :
            IsSimpleWithoutInputs(args.tools[i]) =>
                /\ (\A j \in 1..Len(args.tools) : j # i => WellTyped(args.tools[j]))
                      => ret.val.ok
                /\ ret.val.ok => Entries(ret.val.out)[i] = PlainEntry(args.tools[i])

C14_Witness ==
    /\ RenderDone
    /\ args.tools = << [tool_id |-> "notion", integration_status |-> "API"] >>
    /\ ret.val = Ok(<<"\n### ", "notion", "\n", "- **ID**: '", "notion", "'\n",
                      "- **Category**: ", "Unknown", "\n",
                      "- **Integration**: ", "API", "\n", "\n">>)

\* ------------------------------------------------------------------------
\* Claims about FileManager's loads   (SpecLoad)
\* ------------------------------------------------------------------------
LoadDone(op) == ret # None /\ args.op = op

Good(file) == ReadJson(file).ok

\* the template store file holds a JSON object
HoldsStore ==
    /\ ~IsNone(disk.templates)
    /\ Good(disk.templates.val)
    /\ disk.templates.val.content.doc.val.t = "obj"

StoreDoc == disk.templates.val.content.doc.val

\* every bare string read as {system: <string>, user: ""}, every other
\* record as it is
Normalised(store) ==
    JObj([i \in 1..Len(store.o) |->
            [k |-> store.o[i].k,
             v |-> IF store.o[i].v.t = "str"
                   THEN JObj(<< [k |-> <<"system">>, v |-> store.o[i].v],
                                [k |-> <<"user">>, v |-> JStr(<<>>)] >>)
                   ELSE store.o[i].v]])

IsUniform(store) ==
    \A i, j \in 1..Len(store.o) : (store.o[i].v.t = "str") = (store.o[j].v.t = "str")

\* C15: load_templates returns each record stored as a bare string as
\* {system: <that string>, user: ""} and each record stored as a mapping
\* unchanged, whatever the mix of the two in the store.
C15_NormalisedPerRecord ==
    (LoadDone("load_templates") /\ HoldsStore) => ret.val = Normalised(StoreDoc)

\* the same for stores whose records are all of one kind
C15_UniformStores ==
    (LoadDone("load_templates") /\ HoldsStore /\ IsUniform(StoreDoc))
        => ret.val = Normalised(StoreDoc)

\* the records of the files that can be read and decoded: one for a file
\* holding an object, n for a file holding an array of n
RECURSIVE RecordsIn(_)
RecordsIn(files) ==
    IF files = <<>> THEN <<>>
    ELSE LET file == Head(files)
             held == IF ~Good(file) THEN <<>>
                     ELSE IF file.content.doc.val.t = "arr" THEN file.content.doc.val.a
                     ELSE <<file.content.doc.val>>
         IN  held \o RecordsIn(Tail(files))

AllGood(files) == \A i \in 1..Len(files) : Good(files[i])

\* C16: loading a catalog directory (problems, or tools without ids) gives
\* the concatenation of the records of its files, one for a single object
\* and n for an array of n objects.
C16_CatalogConcatenation ==
    /\ (LoadDone("load_problems") /\ AllGood(disk.problems))
          => ret.val = RecordsIn(disk.problems)
    /\ (LoadDone("load_tools") /\ AllGood(disk.tools))
          => ret.val = RecordsIn(disk.tools)

\* the same for the problem catalog alone
C16_ProblemCatalog ==
    (LoadDone("load_problems") /\ AllGood(disk.problems))
        => ret.val = RecordsIn(disk.problems)

OnlyGood(files) == SelectSeq(files, Good)

\* the good files among the `limit` most recently modified ones
GoodAmongNewest(files, limit) ==
    LET Kept(file) ==
            /\ Good(file)
            /\ Cardinality({j \in 1..Len(files) : files[j].mtime > file.mtime}) < limit
    IN  SelectSeq(files, Kept)

CatalogAndTemplateLoadsSkipBadFiles ==
    /\ LoadDone("load_problems") => ret.val = LoadProblems(OnlyGood(disk.problems))
    /\ LoadDone("load_tools") => ret.val = LoadTools(OnlyGood(disk.tools))
    /\ (LoadDone("load_templates") /\ ~IsNone(disk.templates))
          => ret.val = (IF Good(disk.templates.val)
                        THEN LoadTemplates(disk.templates)
                        ELSE LoadTemplates(None))

\* C17: a load that meets a file it cannot read or decode skips it: the
\* result is the result of loading only the good files.
C17_BadFilesSkipped ==
    /\ CatalogAndTemplateLoadsSkipBadFiles
    /\ LoadDone("load_test_history")
          => ret.val = LoadTestHistory(OnlyGood(disk.results), args.limit)

\* C17 as the code has it: catalogs and templates as above; the history is
\* the result of loading only the good files among the `limit` most recently
\* modified ones.
C17_BadFilesSkippedWithinLimit ==
    /\ CatalogAndTemplateLoadsSkipBadFiles
    /\ LoadDone("load_test_history")
          => ret.val = LoadTestHistory(GoodAmongNewest(disk.results, args.limit), args.limit)

C17_Witness ==
    /\ LoadDone("load_test_history")
    /\ args.limit = 2
    /\ Len(disk.results) = 3
    /\ Len(OnlyGood(disk.results)) = 2
    /\ \E i \in 1..3 : disk.results[i].mtime = 3 /\ ~Good(disk.results[i])
    /\ Len(ret.val) = 1

\* ------------------------------------------------------------------------
\* The app session   (app.py)
\* ------------------------------------------------------------------------
ApiKeys == {None, Some(<<>>), Some(<<"sk-ant-key">>)}

\* a constructor that does not look at the key
NewClientUnchecked(key) == Ok([api_key |-> key])

\* ClaudeClient.__init__   (claude_client.py:13-23)
NewClient(key) ==
    IF ~Truthy(key) THEN Raise("Exception") ELSE Ok([api_key |-> key])

\* the script runs from the top   (app.py:25-46); st.stop() ends it, and a
\* later run of a stopped session starts from the top again
Startup ==
    /\ app \in {"start", "stopped"}
    /\ LET made == IF IsNone(client) THEN NewClient(api_key) ELSE Ok(client.val)
       IN  IF made.ok
           THEN /\ client' = Some(made.out)
                /\ session_state' = [current_results |-> None, current_test_id |-> None]
                /\ ui_error' = None
                /\ app' = "ready"
           ELSE /\ ui_error' = Some(<<"Failed to initialize Claude client">>)
                /\ app' = "stopped"
                /\ UNCHANGED <<client, session_state>>
    /\ UNCHANGED <<disk, api_key, clicked, clicks, returns>>
    /\ UNCHANGED <<harnessVars, genVars, trackerVars, trackerLog>>

\* str.lower().replace(' ', '_') of the main_system names   (app.py:118, 241)
LowerSnake(name) ==
    CASE name = "Apple Watch" -> "apple_watch"
      [] name = "Hub" -> "hub"
      [] OTHER -> name

\* the tools load_tools returned   (app.py:98)
AllTools == <<ToolSpotify, ToolWatch, ToolBare, ToolMaps>>

\* app.py:107-124: the id a tool is listed under; tools with neither
\* tool_id nor main_system are not listed
ToolInfoId(tool) ==
    IF Has(tool, "tool_id") THEN Some(tool.tool_id)
    ELSE IF Has(tool, "main_system") THEN Some(LowerSnake(tool.main_system))
    ELSE None

\* app.py:149-151: the listed tools whose id is selected, in catalog order
SelectedToolObjects(selected_tool_ids) ==
    LET Selected(tool) == /\ ~IsNone(ToolInfoId(tool))
                          /\ ToolInfoId(tool).val \in selected_tool_ids
    IN  SelectSeq(AllTools, Selected)

\* app.py:239-241
EnsureToolId(tool) ==
    IF ~Has(tool, "tool_id") /\ Has(tool, "main_system")
    THEN [k \in DOMAIN tool \cup {"tool_id"} |->
            IF k = "tool_id" THEN LowerSnake(tool.main_system) ELSE tool[k]]
    ELSE tool

SelectedProblem ==
    [problem_id |-> "p1", problem_text |-> <<"P">>, domain |-> "health", level |-> 2]

\* what the user has selected and typed when clicking Generate: the default
\* template, an emptied template box, a template with an unknown field
Inputs ==
    {[selected_tool_ids |-> {"spotify"}, user_prompt |-> DEFAULT_USER_PROMPT],
     [selected_tool_ids |-> {"apple_watch", "google_maps"}, user_prompt |-> <<>>],
     [selected_tool_ids |-> {"google_maps", "spotify"}, user_prompt |-> <<"{", "X:", "}">>]}

\* the values the handler's except branch must have left alone
Session ==
    [total_tokens |-> total_tokens, total_cost |-> total_cost, test_count |-> test_count,
     results |-> disk.results, session_state |-> session_state]

\* a click that enters generate as if a result were already there
ClickGenerateCounted ==
    /\ app = "ready"
    /\ clicks < MaxGenerations
    /\ \E in \in Inputs :
          LET selected_tool_objects == SelectedToolObjects(in.selected_tool_ids)
              tools == [i \in 1..Len(selected_tool_objects) |->
                          EnsureToolId(selected_tool_objects[i])]
          IN  /\ Len(selected_tool_objects) > 0
              /\ request' = Some([problem |-> SelectedProblem.problem_text,
                                  problem_id |-> SelectedProblem.problem_id,
                                  tools |-> tools,
                                  system_prompt |-> <<"S">>,
                                  user_prompt_template |-> Some(in.user_prompt),
                                  temperature |-> 8,
                                  max_tokens |-> 4000])
    /\ clicked' = Some([problem |-> SelectedProblem, session |-> Session])
    /\ clicks' = clicks + 1
    /\ test_count' = test_count + 1
    /\ app' = "generating"
    /\ ui_error' = None
    /\ pc' = "build"
    /\ user_prompt' = None
    /\ api_calls' = 0
    /\ api_error' = None
    /\ api_request' = None
    /\ response' = None
    /\ latency_ms' = 0
    /\ parsed' = None
    /\ total_cost_usd' = 0
    /\ result' = None
    /\ raised' = None
    /\ events' = <<>>
    /\ UNCHANGED <<disk, api_key, client, session_state, returns>>
    /\ UNCHANGED <<harnessVars, total_tokens, total_cost, trackerLog>>

\* the Generate button, up to the call of generate   (app.py:221-251)
ClickGenerate ==
    /\ app = "ready"
    /\ clicks < MaxGenerations
    /\ \E in \in Inputs :
          LET selected_tool_objects == SelectedToolObjects(in.selected_tool_ids)
              tools == [i \in 1..Len(selected_tool_objects) |->
                          EnsureToolId(selected_tool_objects[i])]
          IN  /\ Len(selected_tool_objects) > 0
              /\ request' = Some([problem |-> SelectedProblem.problem_text,
                                  problem_id |-> SelectedProblem.problem_id,
                                  tools |-> tools,
                                  system_prompt |-> <<"S">>,
                                  user_prompt_template |-> Some(in.user_prompt),
                                  temperature |-> 8,
                                  max_tokens |-> 4000])
    /\ clicked' = Some([problem |-> SelectedProblem, session |-> Session])
    /\ clicks' = clicks + 1
    /\ app' = "generating"
    /\ ui_error' = None
    /\ pc' = "build"
    /\ user_prompt' = None
    /\ api_calls' = 0
    /\ api_error' = None
    /\ api_request' = None
    /\ response' = None
    /\ latency_ms' = 0
    /\ parsed' = None
    /\ total_cost_usd' = 0
    /\ result' = None
    /\ raised' = None
    /\ events' = <<>>
    /\ UNCHANGED <<disk, api_key, client, session_state, returns>>
    /\ UNCHANGED <<harnessVars, trackerVars, trackerLog>>

\* FileManager.save_test_result   (file_manager.py:83-100); the timestamp is
\* the number of the write
TestRecord(test_id, timestamp, results, config) ==
    [test_id |-> test_id,
     timestamp |-> timestamp,
     results |-> results,
     config |-> config,
     metadata |-> results.metadata]

\* the tool ids stored last first
ConfigOfReversed(problem, tools, temperature, max_tokens) ==
    [problem_id |-> problem.problem_id,
     problem_text |-> problem.problem_text,
     domain |-> problem.domain,
     level |-> problem.level,
     tools |-> [i \in 1..Len(tools) |->
                  Get(tools[Len(tools) + 1 - i], "tool_id",
                      Get(tools[Len(tools) + 1 - i], "main_system", "unknown"))],
     temperature |-> temperature,
     max_tokens |-> max_tokens]

\* app.py:264-272
ConfigOf(problem, tools, temperature, max_tokens) ==
    [problem_id |-> problem.problem_id,
     problem_text |-> problem.problem_text,
     domain |-> problem.domain,
     level |-> problem.level,
     tools |-> [i \in 1..Len(tools) |->
                  Get(tools[i], "tool_id", Get(tools[i], "main_system", "unknown"))],
     temperature |-> temperature,
     max_tokens |-> max_tokens]

CountResultInputOnly ==
    /\ app = "generating"
    /\ pc = "returned"
    /\ LET results == result.val
       IN  /\ total_tokens' = total_tokens + results.metadata.input_tokens
           /\ total_cost' = total_cost + results.metadata.cost_usd
           /\ test_count' = test_count + 1
           /\ added' = Append(added, [tokens |-> results.metadata.input_tokens,
                                      cost |-> results.metadata.cost_usd])
           /\ last_op' = "add_test"
           /\ got' = None
    /\ app' = "counted"
    /\ UNCHANGED <<disk, api_key, client, session_state, ui_error, clicked, clicks,
                   returns>>
    /\ UNCHANGED <<harnessVars, genVars>>

\* generate returned: the tracker counts the result   (app.py:253-257)
CountResult ==
    /\ app = "generating"
    /\ pc = "returned"
    /\ LET results == result.val
       IN  /\ total_tokens' = total_tokens + results.metadata.tokens
           /\ total_cost' = total_cost + results.metadata.cost_usd
           /\ test_count' = test_count + 1
           /\ added' = Append(added, [tokens |-> results.metadata.tokens,
                                      cost |-> results.metadata.cost_usd])
           /\ last_op' = "add_test"
           /\ got' = None
    /\ app' = "counted"
    /\ UNCHANGED <<disk, api_key, client, session_state, ui_error, clicked, clicks,
                   returns>>
    /\ UNCHANGED <<harnessVars, genVars>>

\* the counted result is persisted and shown   (app.py:259-279)
SaveResult ==
    /\ app = "counted"
    /\ pc = "returned"
    /\ LET results == result.val
           test_id == clicks
           config == ConfigOf(clicked.val.problem, request.val.tools,
                              request.val.temperature, request.val.max_tokens)
       IN  /\ disk' = [disk EXCEPT !.results =
                         Append(@, [mtime |-> Len(@) + 1,
                                    content |-> [data |-> TestRecord(test_id, Len(@) + 1,
                                                                     results, config)]])]
           /\ session_state' = [current_results |-> Some(results),
                                current_test_id |-> Some(test_id)]
    /\ app' = "ready"
    /\ pc' = "idle"
    /\ UNCHANGED <<api_key, client, ui_error, clicked, clicks, returns>>
    /\ UNCHANGED <<request, user_prompt, api_calls, api_error, api_request, response,
                   latency_ms, parsed, total_cost_usd, result, raised, events>>
    /\ UNCHANGED <<harnessVars, trackerVars, trackerLog>>

\* generate raised: the except branch   (app.py:281-282)
ReportError ==
    /\ app = "generating"
    /\ pc = "raised"
    /\ ui_error' = Some(<<"Error: ">> \o raised.val.msg)
    /\ app' = "ready"
    /\ pc' = "idle"
    /\ UNCHANGED <<disk, api_key, client, session_state, clicked, clicks, returns>>
    /\ UNCHANGED <<request, user_prompt, api_calls, api_error, api_request, response,
                   latency_ms, parsed, total_cost_usd, result, raised, events>>
    /\ UNCHANGED <<harnessVars, trackerVars, trackerLog>>

\* the Reset button   (app.py:363-365, cost_tracker.py:24-28); the rerun
\* clears what the last run showed
ClickReset ==
    /\ app = "ready"
    /\ total_tokens' = 0
    /\ total_cost' = 0
    /\ test_count' = 0
    /\ added' = <<>>
    /\ last_op' = "reset"
    /\ got' = None
    /\ ui_error' = None
    /\ returns' = <<>>
    /\ UNCHANGED <<disk, api_key, client, app, session_state, clicked, clicks>>
    /\ UNCHANGED <<harnessVars, genVars>>

\* a session is opened, with or without the key in the environment
InitApp ==
    /\ HarnessIdle /\ GenIdle /\ TrackerInit
    /\ request = None
    /\ disk = EmptyDisk
    /\ api_key \in ApiKeys
    /\ client = None
    /\ app = "start"
    /\ session_state = None
    /\ ui_error = None
    /\ clicked = None
    /\ clicks = 0
    /\ returns = <<>>

NextApp ==
    \/ Startup
    \/ ClickGenerate
    \/ BuildPrompt
    \/ CallModelOk
    \/ CallModelError
    \/ ParseStep
    \/ ComputeCost
    \/ Return
    \/ CountResult
    \/ SaveResult
    \/ ReportError
    \/ ClickReset

SpecApp == InitApp /\ [][NextApp]_vars

\* ------------------------------------------------------------------------
\* Claims about the app session   (SpecApp)
\* ------------------------------------------------------------------------
KeyMissing == ~Truthy(api_key)

\* C18: in a session started without the API credential the construction of
\* the client fails and the script stops there: no client exists, generate
\* is never invoked and the external model is never called.
C18_NoKeyNoRequest ==
    KeyMissing =>
        /\ IsNone(client)
        /\ app \in {"start", "stopped"}
        /\ app = "stopped" => ~IsNone(ui_error)
        /\ pc = "idle"
        /\ IsNone(request)
        /\ api_calls = 0
        /\ events = <<>>
        /\ clicks = 0
        /\ disk.results = <<>>

C18_Witness ==
    /\ KeyMissing
    /\ api_key = Some(<<>>)
    /\ app = "stopped"
    /\ ui_error = Some(<<"Failed to initialize Claude client">>)
    /\ IsNone(client)

Completed == app = "generating" /\ pc = "returned"

Counted == app = "counted" /\ pc = "returned"

LastRecord(files) == files[Len(files)].content.data

\* C19: a completed generation is followed by the writing of exactly one
\* test record, whose metadata is results.metadata, whose results is what
\* generate returned and whose config.tools is the tool ids of the
\* descriptors of the request, in their order; nothing else writes a record.
C19_OneRecordPerGeneration ==
    /\ [][Completed => Counted']_vars
    /\ [][Counted =>
            /\ Len(disk'.results) = Len(disk.results) + 1
            /\ SubSeq(disk'.results, 1, Len(disk.results)) = disk.results
            /\ LastRecord(disk'.results).results = result.val
            /\ LastRecord(disk'.results).metadata = result.val.metadata
            /\ LastRecord(disk'.results).config.tools
                 = [i \in 1..Len(request.val.tools) |-> request.val.tools[i].tool_id]]_vars
    /\ [][disk'.results # disk.results => Counted]_vars

C19_Witness ==
    /\ app = "ready"
    /\ Len(disk.results) = 2
    /\ LastRecord(disk.results).config.tools = <<"apple_watch", "google_maps">>
    /\ LastRecord(disk.results).metadata.tokens = 1550
    /\ session_state.current_test_id = Some(2)
    /\ test_count = 2

Failed == app = "generating" /\ pc = "raised"

\* C20: when generate fails, the handler leaves the tracker's totals and
\* count, the persisted records, current_results and current_test_id as they
\* were when Generate was clicked, and reports the error; the session goes on.
C20_FailureLeavesSession ==
    /\ []((Failed \/ (app = "ready" /\ ~IsNone(ui_error))) =>
             /\ ~IsNone(raised)
             /\ Session = clicked.val.session)
    /\ [][Failed =>
            /\ Session' = Session
            /\ ui_error' = Some(<<"Error: ">> \o raised.val.msg)
            /\ app' = "ready"]_vars

C20_Witness ==
    /\ app = "ready"
    /\ clicks = 2
    /\ test_count = 1
    /\ Len(disk.results) = 1
    /\ ui_error = Some(<<"Error: ", "Claude API error: ", "rate limit exceeded">>)
    /\ session_state.current_test_id = Some(1)
    /\ Session = clicked.val.session

\* C21: in a session, whenever no returned result is waiting to be counted,
\* test_count is the number of results generate returned since the last
\* reset and total_tokens is the sum of their metadata.tokens; every returned
\* result has metadata.tokens = input_tokens + output_tokens; and a record is
\* only persisted when the tracker has already counted its result.
C21_TrackerCountsReturnedResults ==
    /\ [](~Completed =>
             /\ test_count = Len(returns)
             /\ total_tokens = SumOf(returns, "tokens"))
    /\ [](Completed =>
             /\ test_count = Len(returns) - 1
             /\ returns[Len(returns)] = result.val.metadata)
    /\ [](\A i \in 1..Len(returns) :
             returns[i].tokens = returns[i].input_tokens + returns[i].output_tokens)
    /\ [][disk'.results # disk.results =>
            /\ last_op = "add_test"
            /\ added[Len(added)].tokens = LastRecord(disk'.results).metadata.tokens
            /\ test_count = Len(returns)
            /\ total_tokens = SumOf(returns, "tokens")
            /\ returns[Len(returns)] = LastRecord(disk'.results).metadata
            /\ UNCHANGED <<trackerVars, returns>>]_vars

\* two generations with a reset between them
C21_Witness ==
    /\ app = "ready"
    /\ Len(disk.results) = 2
    /\ test_count = 1
    /\ Len(returns) = 1
    /\ returns[1].input_tokens = 1200
    /\ returns[1].output_tokens = 350
    /\ total_tokens = 1550

Answered == ~IsNone(response)

CarryToolIds(tools) == \A i \in 1..Len(tools) : Has(tools[i], "tool_id")

\* C22: every descriptor of a request the app passes to generate carries a
\* tool_id, the extraction of the tool ids after the model call succeeds,
\* and an orchestration started from the app never fails once the model has
\* answered.
C22_NoFailureAfterTheCall ==
    /\ app \in {"generating", "counted"} => CarryToolIds(request.val.tools)
    /\ (app = "generating" /\ pc = "parse") => ExtractToolIds(request.val.tools).ok
    /\ Failed => ~Answered

\* the part about the tool ids: the descriptors carry them and no failure
\* after the answer is the KeyError of the extraction
C22_ToolIdsPresent ==
    /\ app \in {"generating", "counted"} => CarryToolIds(request.val.tools)
    /\ (app = "generating" /\ pc = "parse") => ExtractToolIds(request.val.tools).ok
    /\ (Failed /\ Answered) => raised.val # Exception("KeyError")

\* a Complex descriptor, which has no tool_id in the catalog, is in a request
\* whose model call was answered and parsed
C22_ToolIdsPresent_Witness ==
    /\ app = "generating"
    /\ pc = "cost"
    /\ Answered
    /\ \E i \in 1..Len(request.val.tools) :
          /\ Has(request.val.tools[i], "main_system")
          /\ request.val.tools[i].tool_id = "apple_watch"

\* ------------------------------------------------------------------------
\* Claims about saving templates   (SpecStore)
\* ------------------------------------------------------------------------
HoldsObject(file) ==
    /\ ~IsNone(file)
    /\ Good(file.val)
    /\ ReadJson(file.val).out.t = "obj"

\* the templates a store file holds: each record read on its own, a bare
\* string as {system: <string>, user: ""}; none in a file that holds no object
StoredTemplates(file) ==
    IF HoldsObject(file) THEN Normalised(ReadJson(file.val).out) ELSE JObj(<<>>)

\* the step is save_template(name, system_content, user_content): afterwards
\* load_templates maps name to the saved record and every other template
\* the store held to what it was
SaveKeepsOthers ==
    LET before == StoredTemplates(disk.templates)
        after == LoadTemplates(disk'.templates)
        name == args'.name
    IN  /\ after.t = "obj"
        /\ HasKey(after, name)
        /\ Lookup(after, name) = TemplateRecord(JStr(args'.system_content),
                                                JStr(args'.user_content))
        /\ \A other \in Keys(before) \ {name} :
              /\ HasKey(after, other)
              /\ Lookup(after, other) = Lookup(before, other)

\* C23: after save_template(name, s, u), load_templates() maps name to
\* {system: s, user: u} and every other template that was in the store
\* before the save is still there with the same system and user content,
\* after any sequence of saves.
C23_SaveKeepsOthers == [][SaveKeepsOthers]_vars

\* the same for saves that return, on a store whose records are all of one
\* kind
C23_UniformStores ==
    [][(/\ ret'.val.ok
        /\ HoldsObject(disk.templates) => IsUniform(ReadJson(disk.templates.val).out))
       => SaveKeepsOthers]_vars

\* a legacy store after two saves of other names
C23_UniformStores_Witness ==
    /\ ~IsNone(disk.templates)
    /\ disk.templates.val.mtime = 3
    /\ LET loaded == LoadTemplates(disk.templates)
       IN  /\ Keys(loaded) = TemplateNames
           /\ Lookup(loaded, <<"a">>) = TemplateRecord(JStr(<<"S">>), JStr(<<>>))
           /\ Lookup(loaded, <<"b">>) = TemplateRecord(JStr(<<"T">>), JStr(<<"U">>))
           /\ Lookup(loaded, <<"c">>) = TemplateRecord(JStr(<<"{", "problem", "}">>), JStr(<<>>))

====
